---- MODULE Spec2Model ----
(***************************************************************************)
(* nanoscheme (nscm): the AST builder of src/src/parser.cpp, the           *)
(* evaluator of src/src/expr.cpp, the environment of src/src/env.cpp and   *)
(* the two drivers of src/src/nscm.cpp (repl, eval_files).                 *)
(*                                                                         *)
(* Source text is held in tokenised form: a source expression is either an *)
(* atom (its characters), a bracketed expression (the tokens parse_expr    *)
(* returns for it) or a quoted list.  Expr values are records tagged with  *)
(* the ExpType of expr.h.  An Env pointer is the chain of call frames it   *)
(* reaches (innermost first) and whether the chain ends in the global      *)
(* frame; the global frame itself is the variable global_env, the only     *)
(* frame the program ever changes after it was filled.                     *)
(***************************************************************************)
EXTENDS Integers, Sequences, FiniteSets, TLC

VARIABLES
    mode,        \* "repl" (argc = 1), "files" (main dispatch), "parse"
                 \* (parse_expr on its own, called with any string),
                 \* "frames" (eval_prim on an Env of call frames), or "ast"
                 \* (mkLit of ast.c)
    status,      \* "running", "done", "exit_failure", "crashed"
    global_env,  \* the frame of global_env: name -> Expr or NullExpr
    prev_env,    \* the global frame before the last line or form
    last,        \* the last line or form processed and what came of it
    nread,       \* number of lines read by repl
    files,       \* argv[1..num_files]
    file_i,      \* eval_files: index of the current file
    form_i,      \* eval_files: index of the next form of the current file
    evaluated,   \* eval_files: the <<file, form>> indices built so far
    lexed,       \* parse_expr: its argument, where the call is, idx and res
    cur_env,     \* the Env an expression is evaluated in: its call frames,
                 \* innermost first, in front of global_env
    heap         \* ast.c: the struct Exp objects malloc has returned

vars == <<mode, status, global_env, prev_env, last, nread, files, file_i,
          form_i, evaluated, lexed, cur_env, heap>>

(***************************************************************************)
(* Expr                                                                    *)
(***************************************************************************)
NullExpr == [type |-> "NULL"]

IntE(i)       == [type |-> "INT", ival |-> i]
FloatE(n, d)  == [type |-> "FLOAT", fnum |-> n, fden |-> d]
StrE(s)       == [type |-> "STRING", sval |-> s]
LitE(l)       == [type |-> "LIT", lit |-> l]
ListE(l)      == [type |-> "LIST", list |-> l]
SymE(n)       == [type |-> "SYMBOL", name |-> n]
PrimE(t, a)   == [type |-> "PRIM", prim |-> t, args |-> a]
ProcE(p, b, e) == [type |-> "PROC", params |-> p, body |-> b, env |-> e]

\* bindings: a pointer to a vector of Expr, or NO_BINDING
NO_BINDING == [isnull |-> TRUE, b |-> <<>>]
Bindings(s) == [isnull |-> FALSE, b |-> s]

\* the outcome of a call that may throw
Ok(v)   == [ok |-> TRUE, val |-> v, err |-> ""]
Fail(k) == [ok |-> FALSE, val |-> NullExpr, err |-> k]

(***************************************************************************)
(* Env                                                                     *)
(***************************************************************************)
EmptyFrame == [k \in {} |-> NullExpr]

NullEnv   == [fr |-> <<>>, glob |-> FALSE]    \* the null Env pointer
GlobalEnv == [fr |-> <<>>, glob |-> TRUE]     \* &global_env

IsNullEnv(e) == e.fr = <<>> /\ ~e.glob

\* new Env(tl)
EnvChild(tl) == [fr |-> <<EmptyFrame>> \o tl.fr, glob |-> tl.glob]

\* frame[k] = v
FramePut(f, k, v) ==
    [n \in DOMAIN f \cup {k} |-> IF n = k THEN v ELSE f[n]]

\* a binding written into the outermost call frame of the chain
add_key_value_pair_outermost(e, k, v) ==
    [e EXCEPT !.fr[Len(e.fr)] = FramePut(e.fr[Len(e.fr)], k, v)]

\* add_key_value_pair on a call frame
add_key_value_pair(e, k, v) ==
    [e EXCEPT !.fr[1] = FramePut(e.fr[1], k, v)]

RECURSIVE FrameWalk(_, _, _)
\* the walk that goes on to the outermost call frame holding the name
FrameWalk_outermost(fr, i, name) ==
    IF i > Len(fr) THEN 0
    ELSE IF FrameWalk(fr, i + 1, name) # 0 THEN FrameWalk(fr, i + 1, name)
    ELSE IF name \in DOMAIN fr[i] THEN i
    ELSE 0

FrameWalk(fr, i, name) ==
    IF i > Len(fr) THEN 0
    ELSE IF name \in DOMAIN fr[i] THEN i
    ELSE FrameWalk(fr, i + 1, name)

is_in_env(e, g, name) ==
    \/ FrameWalk(e.fr, 1, name) # 0
    \/ e.glob /\ name \in DOMAIN g

find_var(e, g, name) ==
    LET i == FrameWalk(e.fr, 1, name) IN
    IF i # 0 THEN e.fr[i][name]
    ELSE IF e.glob /\ name \in DOMAIN g THEN g[name]
    ELSE NullExpr

(***************************************************************************)
(* double and int64_t arithmetic.  A double is held as the exact fraction  *)
(* fnum / fden in lowest terms with fden > 0; this is what the machine     *)
(* computes as long as every value is a multiple of a power of two below   *)
(* 2^53, which the literals of the inputs guarantee.                       *)
(***************************************************************************)
Abs(a) == IF a < 0 THEN -a ELSE a

RECURSIVE GCD(_, _)
GCD(a, b) == IF b = 0 THEN a ELSE GCD(b, a % b)

Rat(n, d) ==
    LET s == IF d < 0 THEN -1 ELSE 1
        c == GCD(Abs(n), Abs(d))
    IN  [n |-> (s * n) \div c, d |-> (s * d) \div c]

RatAdd(p, q) == Rat(p.n * q.d + q.n * p.d, p.d * q.d)
RatSub(p, q) == Rat(p.n * q.d - q.n * p.d, p.d * q.d)
RatMul(p, q) == Rat(p.n * q.n, p.d * q.d)
RatDiv(p, q) == Rat(p.n * q.d, p.d * q.n)
RatLt(p, q)  == p.n * q.d < q.n * p.d

IsNum(v) == v.type \in {"INT", "FLOAT"}
NumOf(v) == IF v.type = "INT" THEN [n |-> v.ival, d |-> 1]
            ELSE [n |-> v.fnum, d |-> v.fden]
FloatOf(r) == FloatE(r.n, r.d)

\* int64_t division and remainder truncate toward zero
TruncDiv(a, b) ==
    LET q == Abs(a) \div Abs(b) IN IF (a < 0) # (b < 0) THEN -q ELSE q
\* the % of a floored division: the remainder takes the sign of b
TruncRem_floored(a, b) ==
    LET r == Abs(a) % Abs(b) IN
    IF r = 0 THEN 0
    ELSE IF (a < 0) = (b < 0) THEN (IF b < 0 THEN -r ELSE r)
    ELSE IF b < 0 THEN r - Abs(b) ELSE Abs(b) - r

\* the % of int64_t: the remainder takes the sign of a
TruncRem(a, b) ==
    LET r == Abs(a) % Abs(b) IN IF a < 0 THEN -r ELSE r

(***************************************************************************)
(* Evaluators (expr.cpp).  g is the global frame at the time of the call;  *)
(* depth is the room left on the host stack, counted in nested symbol and  *)
(* procedure evaluations.  A failure is the kind of the exception thrown;  *)
(* "UB" is a call through a null Env pointer and "StackOverflow" the       *)
(* exhaustion of the host stack, neither of which is a C++ exception.      *)
(***************************************************************************)
RECURSIVE eval(_, _, _, _, _)
RECURSIVE eval_sym(_, _, _, _, _)
RECURSIVE eval_proc(_, _, _, _, _)
RECURSIVE proc_bind(_, _, _, _, _)
RECURSIVE eval_prim(_, _, _, _, _)
RECURSIVE BindDeferred(_, _, _, _, _, _, _, _, _)
RECURSIVE BindParams(_, _, _, _, _, _, _)
RECURSIVE FoldNum(_, _, _, _, _, _, _)
RECURSIVE MapElems(_, _, _, _, _, _, _)
RECURSIVE FilterElems(_, _, _, _, _, _, _)

\* an identifier evaluating to the expression bound to it, as it is stored
eval_sym_stored(x, bindings, e, g, depth) ==
    IF x.type # "SYMBOL" THEN Fail("NotSymbol")
    ELSE IF IsNullEnv(e) THEN Fail("UB")
    ELSE LET found_val == find_var(e, g, x.name) IN
         IF found_val.type # "NULL" THEN Ok(found_val)
         ELSE Fail("UnboundIdentifier")

eval_sym(x, bindings, e, g, depth) ==
    IF x.type # "SYMBOL" THEN Fail("NotSymbol")
    ELSE IF IsNullEnv(e) THEN Fail("UB")
    ELSE LET found_val == find_var(e, g, x.name) IN
         IF found_val.type # "NULL"
         THEN IF depth = 0 THEN Fail("StackOverflow")
              ELSE eval(found_val, bindings, e, g, depth - 1)
         ELSE Fail("UnboundIdentifier")

\* the deferred call evaluating its argument expressions in the fresh frame
BindDeferred_in_callee(i, params, cparams, bindings, e, g, depth, new_env, vals) ==
    IF i > Len(params.list) THEN [ok |-> TRUE, env |-> new_env, vals |-> vals, err |-> ""]
    ELSE IF i > Len(cparams.list)
         THEN [ok |-> FALSE, env |-> new_env, vals |-> vals, err |-> "OutOfRange"]
    ELSE IF cparams.list[i].type # "STRING"
         THEN [ok |-> FALSE, env |-> new_env, vals |-> vals, err |-> "MalformedParameter"]
    ELSE LET eval_param == eval(params.list[i], bindings, new_env, g, depth) IN
         IF ~eval_param.ok
         THEN [ok |-> FALSE, env |-> new_env, vals |-> vals, err |-> eval_param.err]
         ELSE BindDeferred(i + 1, params, cparams, bindings, e, g, depth,
                  add_key_value_pair(new_env, cparams.list[i].sval, eval_param.val),
                  Append(vals, eval_param.val))

\* the loop of the deferred recursive call (body is a Symbol): the i-th
\* argument expression of the call node, evaluated in the caller's e, is
\* bound to the i-th parameter name of the callee
BindDeferred(i, params, cparams, bindings, e, g, depth, new_env, vals) ==
    IF i > Len(params.list) THEN [ok |-> TRUE, env |-> new_env, vals |-> vals, err |-> ""]
    ELSE IF i > Len(cparams.list)
         THEN [ok |-> FALSE, env |-> new_env, vals |-> vals, err |-> "OutOfRange"]
    ELSE IF cparams.list[i].type # "STRING"
         THEN [ok |-> FALSE, env |-> new_env, vals |-> vals, err |-> "MalformedParameter"]
    ELSE LET eval_param == eval(params.list[i], bindings, e, g, depth) IN
         IF ~eval_param.ok
         THEN [ok |-> FALSE, env |-> new_env, vals |-> vals, err |-> eval_param.err]
         ELSE BindDeferred(i + 1, params, cparams, bindings, e, g, depth,
                  add_key_value_pair(new_env, cparams.list[i].sval, eval_param.val),
                  Append(vals, eval_param.val))

\* the loop of the ordinary call: the i-th binding, evaluated in the
\* captured env, is bound to the i-th parameter name
BindParams(i, params, bindings, env, g, depth, new_env) ==
    IF i > Len(bindings.b) THEN [ok |-> TRUE, env |-> new_env, err |-> ""]
    ELSE IF params.list[i].type # "STRING"
         THEN [ok |-> FALSE, env |-> new_env, err |-> "MalformedParameter"]
    ELSE LET value == eval(bindings.b[i], bindings, env, g, depth) IN
         IF ~value.ok THEN [ok |-> FALSE, env |-> new_env, err |-> value.err]
         ELSE BindParams(i + 1, params, bindings, env, g, depth,
                  add_key_value_pair(new_env, params.list[i].sval, value.val))

\* eval_proc up to the evaluation of the body: the arity check and the
\* filling of new_env; body and bindings are what is evaluated next
proc_bind(x, bindings, e, g, depth) ==
    LET none == [ok |-> FALSE, err |-> "", env |-> NullEnv,
                 body |-> NullExpr, bindings |-> NO_BINDING]
    IN
    IF x.type # "PROC" THEN [none EXCEPT !.err = "NotProc"]
    ELSE IF bindings.isnull \/ Len(bindings.b) # Len(x.params.list)
         THEN [none EXCEPT !.err = "ArityMismatch"]
    ELSE IF depth = 0 THEN [none EXCEPT !.err = "StackOverflow"]
    ELSE
    LET new_env == EnvChild(x.env) IN
    IF x.body.type = "SYMBOL"
    THEN LET caller == eval(x.body, bindings, e, g, depth - 1) IN
         IF ~caller.ok THEN [none EXCEPT !.err = caller.err]
         ELSE IF caller.val.type # "PROC" THEN [none EXCEPT !.err = "NotProc"]
         ELSE LET bound == BindDeferred(1, x.params, caller.val.params,
                               bindings, e, g, depth - 1, new_env, <<>>) IN
              IF ~bound.ok THEN [none EXCEPT !.err = bound.err]
              ELSE [ok |-> TRUE, err |-> "", env |-> bound.env,
                    body |-> caller.val.body,
                    bindings |-> Bindings(bound.vals)]
    ELSE LET bound == BindParams(1, x.params, bindings, x.env, g,
                          depth - 1, new_env) IN
         IF ~bound.ok THEN [none EXCEPT !.err = bound.err]
         ELSE [ok |-> TRUE, err |-> "", env |-> bound.env,
               body |-> x.body, bindings |-> bindings]

eval_proc(x, bindings, e, g, depth) ==
    LET call == proc_bind(x, bindings, e, g, depth) IN
    IF ~call.ok THEN Fail(call.err)
    ELSE eval(call.body, call.bindings, call.env, g, depth - 1)

\* the loops of ADD and MUL after n iterations, and what is returned if the
\* loop ends there: each argument is evaluated and type-checked before the
\* next one is; the double s (or p) is the number held by prev.val, and it
\* is returned as an INT when it is whole
FoldNum(op, args, n, bindings, e, g, depth) ==
    LET prev == FoldNum(op, args, n - 1, bindings, e, g, depth)
        exp  == eval(args[n], bindings, e, g, depth)
        s    == IF op = "ADD" THEN RatAdd(NumOf(prev.val), NumOf(exp.val))
                ELSE RatMul(NumOf(prev.val), NumOf(exp.val))
    IN
    CASE n = 0 -> Ok(IntE(IF op = "ADD" THEN 0 ELSE 1))
      [] n > 0 /\ ~prev.ok -> prev
      [] /\ n > 0
         /\ prev.ok
         /\ exp.ok
         /\ IsNum(exp.val) -> IF s.d = 1 THEN Ok(IntE(s.n)) ELSE Ok(FloatOf(s))
      [] /\ n > 0
         /\ prev.ok
         /\ exp.ok
         /\ ~IsNum(exp.val) -> Fail("TypeError")
      [] /\ n > 0
         /\ prev.ok
         /\ ~exp.ok -> exp

\* the loop of MAP: fun applied to a one-element bindings vector
MapElems(fun, list, i, e, g, depth, l) ==
    IF i > Len(list) THEN Ok(ListE(l))
    ELSE LET applied_elem == eval(fun, Bindings(<<list[i]>>), e, g, depth) IN
         IF ~applied_elem.ok THEN applied_elem
         ELSE MapElems(fun, list, i + 1, e, g, depth,
                       Append(l, applied_elem.val))

\* the loop of FILTER
FilterElems(fun, list, i, e, g, depth, l) ==
    IF i > Len(list) THEN Ok(ListE(l))
    ELSE LET applied_elem == eval(fun, Bindings(<<list[i]>>), e, g, depth) IN
         IF ~applied_elem.ok THEN applied_elem
         ELSE IF applied_elem.val.type # "LIT" THEN Fail("TypeError")
         ELSE FilterElems(fun, list, i + 1, e, g, depth,
                  IF applied_elem.val.lit = "TRUE"
                  THEN Append(l, list[i]) ELSE l)

\* IF taking zero for true
Truthy_nonneg(cond) ==
    \/ cond.type = "LIT" /\ cond.lit = "TRUE"
    \/ cond.type = "INT" /\ cond.ival >= 0
    \/ cond.type = "FLOAT" /\ cond.fnum >= 0

\* the three tests of IF on the evaluated condition
Truthy(cond) ==
    \/ cond.type = "LIT" /\ cond.lit = "TRUE"
    \/ cond.type = "INT" /\ cond.ival > 0
    \/ cond.type = "FLOAT" /\ cond.fnum > 0

Bool(b) == Ok(LitE(IF b THEN "TRUE" ELSE "FALSE"))

\* the four comparators on evaluated operands
Compare(prim_type, v1, v2) ==
    IF ~(IsNum(v1) /\ IsNum(v2)) THEN Fail("TypeError")
    ELSE LET p == NumOf(v1)
             q == NumOf(v2)
         IN  CASE prim_type = "GT" -> Bool(RatLt(q, p))
               [] prim_type = "LT" -> Bool(RatLt(p, q))
               [] prim_type = "GE" -> Bool(~RatLt(p, q))
               [] prim_type = "LE" -> Bool(~RatLt(q, p))

\* DIV and MOD checking the operand types before the zero divisor
Arith_types_first(prim_type, v1, v2) ==
    LET zero == IsNum(v2) /\ NumOf(v2).n = 0
        ints == v1.type = "INT" /\ v2.type = "INT"
    IN
    CASE prim_type = "SUB" ->
           IF ints THEN Ok(IntE(v1.ival - v2.ival))
           ELSE IF IsNum(v1) /\ IsNum(v2)
                THEN Ok(FloatOf(RatSub(NumOf(v1), NumOf(v2))))
           ELSE Fail("TypeError")
      [] prim_type = "DIV" ->
           IF ~(IsNum(v1) /\ IsNum(v2)) THEN Fail("TypeError")
           ELSE IF zero THEN Fail("DivisionByZero")
           ELSE IF ints THEN Ok(IntE(TruncDiv(v1.ival, v2.ival)))
           ELSE Ok(FloatOf(RatDiv(NumOf(v1), NumOf(v2))))
      [] prim_type = "MOD" ->
           IF ~ints THEN Fail("TypeError")
           ELSE IF zero THEN Fail("DivisionByZero")
           ELSE Ok(IntE(TruncRem(v1.ival, v2.ival)))

\* SUB, DIV, MOD on evaluated operands
Arith(prim_type, v1, v2) ==
    LET zero == IsNum(v2) /\ NumOf(v2).n = 0
        ints == v1.type = "INT" /\ v2.type = "INT"
    IN
    CASE prim_type = "SUB" ->
           IF ints THEN Ok(IntE(v1.ival - v2.ival))
           ELSE IF IsNum(v1) /\ IsNum(v2)
                THEN Ok(FloatOf(RatSub(NumOf(v1), NumOf(v2))))
           ELSE Fail("TypeError")
      [] prim_type = "DIV" ->
           IF zero THEN Fail("DivisionByZero")
           ELSE IF ints THEN Ok(IntE(TruncDiv(v1.ival, v2.ival)))
           ELSE IF IsNum(v1) /\ IsNum(v2)
                THEN Ok(FloatOf(RatDiv(NumOf(v1), NumOf(v2))))
           ELSE Fail("TypeError")
      [] prim_type = "MOD" ->
           IF zero THEN Fail("DivisionByZero")
           ELSE IF ints THEN Ok(IntE(TruncRem(v1.ival, v2.ival)))
           ELSE Fail("TypeError")

TypeTest == [IS_NUM  |-> {"INT", "FLOAT"}, IS_SYM  |-> {"SYMBOL"},
             IS_LIST |-> {"LIST"},         IS_PROC |-> {"PROC"},
             IS_BOOL |-> {"LIT"},          IS_STR  |-> {"STRING"}]

eval_prim(x, bindings, e, g, depth) ==
    LET prim_type == IF x.type = "PRIM" THEN x.prim ELSE "NONE"
        args == x.args
        e1 == eval(args[1], bindings, e, g, depth)
        e2 == eval(args[2], bindings, e, g, depth)
    IN
    CASE prim_type = "NONE" -> Fail("NotPrim")
      [] prim_type \in {"DEFINE", "SET"} ->
           \* the add_key_value_pair of these two cases is applied by
           \* make_var_assignment, the only place that evaluates them
           IF Len(args) # 2 THEN Fail("ArityMismatch")
           ELSE LET name == e1 IN
                IF ~name.ok THEN name
                ELSE IF name.val.type # "STRING" THEN Fail("TypeError")
                ELSE IF prim_type = "SET" /\ ~is_in_env(e, g, name.val.sval)
                     THEN Fail("UnboundIdentifier")
                ELSE Ok(LitE("NIL"))
      [] prim_type = "LAMBDA" ->
           IF Len(args) # 2 THEN Fail("ArityMismatch")
           ELSE IF args[1].type # "LIST" THEN Fail("TypeError")
           ELSE Ok(ProcE(args[1], args[2], e))
      [] prim_type = "IF" /\ Len(args) # 3 -> Fail("ArityMismatch")
      [] prim_type = "IF" /\ Len(args) = 3 /\ ~e1.ok -> e1
      [] prim_type = "IF" /\ Len(args) = 3 /\ e1.ok ->
           \* cond is e1
           eval(args[IF Truthy(e1.val) THEN 2 ELSE 3], bindings, e, g, depth)
      [] prim_type \in {"ADD", "MUL"} ->
           FoldNum(prim_type, args, Len(args), bindings, e, g, depth)
      [] prim_type \in {"SUB", "DIV", "MOD"} ->
           IF Len(args) # 2 THEN Fail("ArityMismatch")
           ELSE IF ~e1.ok THEN e1
           ELSE IF ~e2.ok THEN e2
           ELSE Arith(prim_type, e1.val, e2.val)
      [] prim_type \in {"GT", "LT", "GE", "LE"} ->
           IF Len(args) # 2 THEN Fail("ArityMismatch")
           ELSE IF ~e1.ok THEN e1
           ELSE IF ~e2.ok THEN e2
           ELSE Compare(prim_type, e1.val, e2.val)
      [] prim_type \in DOMAIN TypeTest ->
           IF Len(args) # 1 THEN Fail("ArityMismatch")
           ELSE IF ~e1.ok THEN e1
           ELSE Bool(e1.val.type \in TypeTest[prim_type])
      [] prim_type = "CAR" ->
           IF Len(args) # 1 THEN Fail("ArityMismatch")
           ELSE IF ~e1.ok THEN e1
           ELSE IF e1.val.type # "LIST" THEN Fail("TypeError")
           ELSE IF Len(e1.val.list) = 0 THEN Ok(LitE("NIL"))
           ELSE eval(e1.val.list[1], bindings, e, g, depth)
      [] prim_type = "CDR" ->
           IF Len(args) # 1 THEN Fail("ArityMismatch")
           ELSE IF ~e1.ok THEN e1
           ELSE IF e1.val.type # "LIST" THEN Fail("TypeError")
           ELSE IF Len(e1.val.list) < 2 THEN Ok(LitE("NIL"))
           ELSE Ok(ListE(Tail(e1.val.list)))
      [] prim_type = "CONS" ->
           IF Len(args) # 2 THEN Fail("ArityMismatch")
           ELSE IF ~e1.ok THEN e1
           ELSE IF ~e2.ok THEN e2
           ELSE IF e1.val.type # "LIST" /\ e2.val.type = "LIST"
                THEN Ok(ListE(<<e1.val>> \o e2.val.list))
           ELSE Fail("TypeError")
      [] prim_type = "APPEND" ->
           IF Len(args) # 2 THEN Fail("ArityMismatch")
           ELSE IF ~e1.ok THEN e1
           ELSE IF ~e2.ok THEN e2
           ELSE IF e1.val.type = "LIST" /\ e2.val.type = "LIST"
                THEN Ok(ListE(e1.val.list \o e2.val.list))
           ELSE Fail("TypeError")
      [] prim_type = "MAP" ->
           IF Len(args) # 2 THEN Fail("ArityMismatch")
           ELSE IF ~e1.ok THEN e1
           ELSE IF ~e2.ok THEN e2
           ELSE IF e1.val.type = "PROC" /\ e2.val.type = "LIST"
                THEN MapElems(e1.val, e2.val.list, 1, e, g, depth, <<>>)
           ELSE Fail("TypeError")
      [] prim_type = "FILTER" ->
           IF Len(args) # 2 THEN Fail("ArityMismatch")
           ELSE IF ~e1.ok THEN e1
           ELSE IF ~e2.ok THEN e2
           ELSE IF e1.val.type = "PROC" /\ e2.val.type = "LIST"
                THEN FilterElems(e1.val, e2.val.list, 1, e, g, depth, <<>>)
           ELSE Fail("TypeError")
      [] prim_type = "IS_NULL" ->
           IF Len(args) # 1 THEN Fail("ArityMismatch")
           ELSE IF ~e1.ok THEN e1
           ELSE IF e1.val.type # "LIST" THEN Fail("TypeError")
           ELSE Bool(Len(e1.val.list) = 0)
      [] OTHER -> Fail("InvalidPrimitive")

eval(x, bindings, e, g, depth) ==
    CASE x.type \in {"INT", "FLOAT", "STRING", "LIST", "LIT"} -> Ok(x)
      [] x.type = "PRIM"   -> eval_prim(x, bindings, e, g, depth)
      [] x.type = "SYMBOL" -> eval_sym(x, bindings, e, g, depth)
      [] x.type = "PROC"   -> eval_proc(x, bindings, e, g, depth)
      [] OTHER             -> Fail("UnknownType")

(***************************************************************************)
(* Source text.  A token is the sequence of its characters.  An expression *)
(* string is held as what parse_expr makes of it: Atom(s) is a string that *)
(* is neither bracketed nor quoted, Form(items) the string "(t1 t2 ...)"   *)
(* whose tokens are items, Quote(items) the string "'(t1 t2 ...)".         *)
(***************************************************************************)
Atom(s)      == [k |-> "atom", s |-> s, items |-> <<>>]
Form(items)  == [k |-> "form", s |-> <<>>, items |-> items]
Quote(items) == [k |-> "quote", s |-> <<>>, items |-> items]

RECURSIVE SrcText(_)
RECURSIVE JoinText(_, _)
\* the characters of a token
SrcText(t) ==
    CASE t.k = "atom"  -> t.s
      [] t.k = "form"  -> <<"(">> \o JoinText(t.items, 1) \o <<")">>
      [] t.k = "quote" -> <<"'", "(">> \o JoinText(t.items, 1) \o <<")">>
JoinText(items, i) ==
    IF i > Len(items) THEN <<>>
    ELSE IF i = Len(items) THEN SrcText(items[i])
    ELSE SrcText(items[i]) \o <<" ">> \o JoinText(items, i + 1)

token_table ==
    (<<"+">> :> "ADD") @@
    (<<"-">> :> "SUB") @@
    (<<"*">> :> "MUL") @@
    (<<"i","f">> :> "IF") @@
    (<<"/">> :> "DIV") @@
    (<<">">> :> "GT") @@
    (<<"<">> :> "LT") @@
    (<<"m","o","d">> :> "MOD") @@
    (<<">","=">> :> "GE") @@
    (<<"<","=">> :> "LE") @@
    (<<"c","a","r">> :> "CAR") @@
    (<<"c","d","r">> :> "CDR") @@
    (<<"c","o","n","s">> :> "CONS") @@
    (<<"l","a","m","b","d","a">> :> "LAMBDA") @@
    (<<"d","e","f","i","n","e">> :> "DEFINE") @@
    (<<"s","e","t","!">> :> "SET") @@
    (<<"n","u","m","b","e","r","?">> :> "IS_NUM") @@
    (<<"p","r","o","c","e","d","u","r","e","?">> :> "IS_PROC") @@
    (<<"b","o","o","l","e","a","n","?">> :> "IS_BOOL") @@
    (<<"s","t","r","i","n","g","?">> :> "IS_STR") @@
    (<<"s","y","m","b","o","l","?">> :> "IS_SYM") @@
    (<<"l","i","s","t","?">> :> "IS_LIST") @@
    (<<"n","u","l","l","?">> :> "IS_NULL") @@
    (<<"m","a","p">> :> "MAP") @@
    (<<"f","i","l","t","e","r">> :> "FILTER") @@
    (<<"a","p","p","e","n","d">> :> "APPEND") @@
    (<<"s","i","n">> :> "SIN") @@
    (<<"c","o","s">> :> "COS") @@
    (<<"t","a","n">> :> "TAN") @@
    (<<"s","q","r","t">> :> "SQRT") @@
    (<<"l","o","g">> :> "LOG") @@
    (<<"m","a","x">> :> "MAX") @@
    (<<"m","i","n">> :> "MIN") @@
    (<<"a","b","s">> :> "ABS")

DigitVal == ("0" :> 0) @@ ("1" :> 1) @@ ("2" :> 2) @@ ("3" :> 3) @@ ("4" :> 4) @@
            ("5" :> 5) @@ ("6" :> 6) @@ ("7" :> 7) @@ ("8" :> 8) @@ ("9" :> 9)
IsDigit(c) == c \in DOMAIN DigitVal

RECURSIVE Pow10(_)
Pow10(k) == IF k = 0 THEN 1 ELSE 10 * Pow10(k - 1)

RECURSIVE DigitRun(_, _)
\* the number of digits of s from position i on
DigitRun(s, i) ==
    IF i <= Len(s) /\ IsDigit(s[i]) THEN 1 + DigitRun(s, i + 1) ELSE 0

RECURSIVE DigitsValue(_, _, _)
\* the value of the n digits of s from position i on
DigitsValue(s, i, n) ==
    IF n = 0 THEN 0
    ELSE DigitsValue(s, i, n - 1) * 10 + DigitVal[s[i + n - 1]]

HasSign(s) == Len(s) > 0 /\ s[1] \in {"+", "-"}
SignOf(s)  == IF Len(s) > 0 /\ s[1] = "-" THEN -1 ELSE 1

\* is_int: std::stol converts the longest prefix [sign] digits and throws
\* when there is no digit
is_int(expr) ==
    LET i == IF HasSign(expr) THEN 2 ELSE 1
        n == DigitRun(expr, i)
    IN  [ok |-> n > 0, parsed |-> SignOf(expr) * DigitsValue(expr, i, n)]

\* is_float: std::stod converts the longest prefix [sign] digits [. digits]
\* (exponents, hexadecimal, inf and nan are not among the inputs), and
\* the string must hold a '.'
is_float(expr) ==
    LET i  == IF HasSign(expr) THEN 2 ELSE 1
        n  == DigitRun(expr, i)
        dot == i + n <= Len(expr) /\ expr[i + n] = "."
        m  == IF dot THEN DigitRun(expr, i + n + 1) ELSE 0
        r  == Rat(SignOf(expr) * (DigitsValue(expr, i, n) * Pow10(m)
                                  + DigitsValue(expr, i + n + 1, m)),
                  Pow10(m))
    IN  [ok |-> n + m > 0 /\ \E j \in 1..Len(expr) : expr[j] = ".",
         parsed |-> r]

(***************************************************************************)
(* AST builder (parser.cpp).  Every build runs against &global_env, so the *)
(* env argument is the global frame g; a builder returns the frame it left *)
(* behind together with its value or its failure.  MaxDepth is the room on *)
(* the host stack an evaluation started by the builder or a driver has.    *)
(***************************************************************************)
MaxDepth == 11

Built(v, g)    == [ok |-> TRUE, val |-> v, err |-> "", g |-> g]
Failed(k, g)   == [ok |-> FALSE, val |-> NullExpr, err |-> k, g |-> g]
WithEnv(r, g)  == [ok |-> r.ok, val |-> r.val, err |-> r.err, g |-> g]

HasBlank(s) == \E i \in 1..Len(s) : s[i] \in {" ", "\n"}

make_const(expr, g) ==
    IF Len(expr) > 1 /\ expr[1] = "\"" /\ expr[Len(expr)] = "\""
    THEN Built(StrE(expr), g)
    ELSE IF HasBlank(expr) /\ expr[1] \notin {"(", "'"}
    THEN Failed("SyntaxError", g)
    ELSE IF is_float(expr).ok
         THEN Built(FloatOf(is_float(expr).parsed), g)
    ELSE IF is_int(expr).ok THEN Built(IntE(is_int(expr).parsed), g)
    ELSE IF expr = <<"#", "t">> THEN Built(LitE("TRUE"), g)
    ELSE IF expr = <<"#", "f">> THEN Built(LitE("FALSE"), g)
    ELSE IF expr = <<"n", "i", "l">> THEN Built(LitE("NIL"), g)
    ELSE LET var == find_var(GlobalEnv, g, expr) IN
         IF var.type # "NULL"
         THEN IF var.type = "PROC" THEN Built(var, g)
              ELSE IF var.type = "PRIM" /\ var.prim = "LAMBDA"
                   THEN Built(var, g)
              ELSE WithEnv(eval(var, NO_BINDING, NullEnv, g, MaxDepth), g)
         ELSE Built(SymE(expr), g)

make_params_list(expr) ==
    ListE([i \in 1..Len(expr.items) |-> StrE(SrcText(expr.items[i]))])

RECURSIVE build_AST(_, _)
RECURSIVE BuildArgs(_, _, _, _)
RECURSIVE BuildConsts(_, _, _, _)
RECURSIVE make_var_assignment(_, _, _)
RECURSIVE make_lambda(_, _)
RECURSIVE make_prim(_, _)
RECURSIVE make_proc_call(_, _)
RECURSIVE CallProc(_, _, _)
RECURSIVE CallBuilt(_, _, _)

\* build_AST of tokens[i..] in order; the value is the list of the nodes
BuildArgs(tokens, i, g, acc) ==
    IF i > Len(tokens) THEN Built(ListE(acc), g)
    ELSE LET rest(a) ==
                 IF ~a.ok THEN a
                 ELSE BuildArgs(tokens, i + 1, a.g, Append(acc, a.val))
         IN  rest(build_AST(tokens[i], g))

\* make_const of tokens[i..] in order (the elements of a list literal)
BuildConsts(tokens, i, g, acc) ==
    IF i > Len(tokens) THEN Built(ListE(acc), g)
    ELSE LET rest(a) ==
                 IF ~a.ok THEN a
                 ELSE BuildConsts(tokens, i + 1, a.g, Append(acc, a.val))
         IN  rest(make_const(SrcText(tokens[i]), g))

make_var_assignment(type, tokens, g) ==
    IF Len(tokens) # 3 THEN Failed("ArityMismatch", g)
    ELSE
    LET name == SrcText(tokens[2])
        \* the binding is added once the primitive has been evaluated
        assign(sym_val, symbol) ==
            IF ~symbol.ok THEN WithEnv(symbol, sym_val.g)
            ELSE WithEnv(symbol, FramePut(sym_val.g, name, sym_val.val))
        bind(sym_val) ==
            IF ~sym_val.ok THEN sym_val
            ELSE assign(sym_val,
                        eval(PrimE(type, <<StrE(name), sym_val.val>>),
                             NO_BINDING, GlobalEnv, sym_val.g, MaxDepth))
    IN  bind(build_AST(tokens[3], FramePut(g, name, NullExpr)))

make_lambda(tokens, g) ==
    IF Len(tokens) # 3 THEN Failed("ArityMismatch", g)
    ELSE IF tokens[2].k # "form" THEN Failed("SyntaxError", g)
    ELSE IF tokens[3].k # "form" THEN Failed("SyntaxError", g)
    ELSE LET params == make_params_list(tokens[2])
             node(body) ==
                 IF ~body.ok THEN body
                 ELSE Built(PrimE("LAMBDA", <<params, body.val>>), body.g)
         IN  node(build_AST(tokens[3], g))

make_prim(tokens, g) ==
    LET prim_type == token_table[SrcText(tokens[1])]
        node(args_list) ==
            IF ~args_list.ok THEN args_list
            ELSE Built(PrimE(prim_type, args_list.val.list), args_list.g)
    IN
    IF prim_type \in {"DEFINE", "SET"}
    THEN make_var_assignment(prim_type, tokens, g)
    ELSE IF prim_type = "LAMBDA" THEN make_lambda(tokens, g)
    ELSE node(BuildArgs(tokens, 2, g, <<>>))

\* the second of the two evaluations of a lambda caller
CallProc(proc, bindings, g) ==
    IF ~proc.ok THEN WithEnv(proc, g)
    ELSE WithEnv(eval(proc.val, bindings, GlobalEnv, g, MaxDepth), g)

\* make_proc_call once the caller and the bindings are built
CallBuilt(name, caller, built) ==
    IF ~built.ok THEN built
    ELSE IF caller.type = "PROC"
    THEN CallProc(Ok(caller), Bindings(built.val.list), built.g)
    ELSE IF caller.type = "PRIM" /\ caller.prim = "LAMBDA"
    THEN CallProc(eval(caller, Bindings(built.val.list), GlobalEnv, built.g,
                       MaxDepth),
                  Bindings(built.val.list), built.g)
    ELSE IF caller.type = "SYMBOL"
    THEN LET found      == is_in_env(GlobalEnv, built.g, name)
             found_expr == find_var(GlobalEnv, built.g, name)
         IN  IF found /\ found_expr.type # "NULL"
             THEN Built(found_expr, built.g)
             ELSE IF found
                  THEN Built(ProcE(ListE(built.val.list), caller, GlobalEnv),
                             built.g)
             ELSE Failed("UnboundProcedure", built.g)
    ELSE Failed("NotCallable", built.g)

make_proc_call(tokens, g) ==
    IF Len(tokens) < 2 THEN Failed("ArityMismatch", g)
    ELSE LET args(caller) ==
                 IF ~caller.ok THEN caller
                 ELSE CallBuilt(SrcText(tokens[1]), caller.val,
                                BuildArgs(tokens, 2, caller.g, <<>>))
         IN  args(build_AST(tokens[1], g))

build_AST(expr, g) ==
    IF expr.k = "atom" THEN make_const(expr.s, g)
    ELSE IF expr.k = "quote" THEN BuildConsts(expr.items, 1, g, <<>>)
    ELSE IF Len(expr.items) = 0 THEN Failed("SyntaxError", g)
    ELSE IF SrcText(expr.items[1]) \in DOMAIN token_table
         THEN make_prim(expr.items, g)
    ELSE make_proc_call(expr.items, g)

(***************************************************************************)
(* print_to_console (expr.cpp): the characters written to std::cout, and   *)
(* whether the call returned (vector::at throws for an empty list).        *)
(***************************************************************************)
DigitChar == <<"0", "1", "2", "3", "4", "5", "6", "7", "8", "9">>

RECURSIVE Digits(_)
Digits(n) ==
    IF n < 10 THEN <<DigitChar[n + 1]>>
    ELSE Digits(n \div 10) \o <<DigitChar[(n % 10) + 1]>>

RECURSIVE PadDigits(_, _)
\* the last k decimal digits of n
PadDigits(n, k) ==
    IF k = 0 THEN <<>>
    ELSE PadDigits(n \div 10, k - 1) \o <<DigitChar[(n % 10) + 1]>>

RECURSIVE StripZeros(_)
StripZeros(s) ==
    IF Len(s) > 0 /\ s[Len(s)] = "0" THEN StripZeros(SubSeq(s, 1, Len(s) - 1))
    ELSE s

RECURSIVE LeadZeros(_, _, _)
\* the number of zeros between the point and the first digit of a / d < 1
LeadZeros(a, d, z) ==
    IF a = 0 \/ a * Pow10(z + 1) >= d THEN z ELSE LeadZeros(a, d, z + 1)

IntText(i) == IF i < 0 THEN <<"-">> \o Digits(-i) ELSE Digits(i)

\* operator<< of a double: six significant digits, trailing zeros dropped
\* (values of 10^6 and more or below 10^-4 are not among the inputs)
DoubleText(n, d) ==
    LET a      == Abs(n)
        whole  == a \div d
        f      == IF whole > 0 THEN 6 - Len(Digits(whole))
                  ELSE 6 + LeadZeros(a, d, 0)
        scaled == (2 * a * Pow10(f) + d) \div (2 * d)
        frac   == StripZeros(PadDigits(scaled % Pow10(f), f))
    IN  (IF n < 0 THEN <<"-">> ELSE <<>>)
        \o Digits(scaled \div Pow10(f))
        \o (IF frac = <<>> THEN <<>> ELSE <<".">> \o frac)

RECURSIVE print_to_console(_)
RECURSIVE PrintElems(_, _, _)

\* the loop of the LIST case from element i on, after out was written
PrintElems(list, i, out) ==
    IF Len(list) = 0 THEN [ok |-> FALSE, out |-> out]
    ELSE LET elem == print_to_console(list[i]) IN
         IF ~elem.ok THEN [ok |-> FALSE, out |-> out \o elem.out]
         ELSE IF i < Len(list)
              THEN PrintElems(list, i + 1, out \o elem.out \o <<" ">>)
         ELSE [ok |-> TRUE, out |-> out \o elem.out \o <<")">>]

print_to_console(x) ==
    CASE x.type = "INT"    -> [ok |-> TRUE, out |-> IntText(x.ival)]
      [] x.type = "FLOAT"  -> [ok |-> TRUE, out |-> DoubleText(x.fnum, x.fden)]
      [] x.type = "STRING" -> [ok |-> TRUE, out |-> x.sval]
      [] x.type = "PROC"   ->
           [ok |-> TRUE, out |-> <<"<","p","r","o","c","e","d","u","r","e",">">>]
      [] x.type = "SYMBOL" -> [ok |-> TRUE, out |-> <<>>]
      [] x.type = "PRIM"   ->
           [ok |-> TRUE,
            out |-> CASE x.prim = "LAMBDA" -> <<"<","c","l","o","s","u","r","e",">">>
                      [] x.prim \in {"DEFINE", "SET"} -> <<>>
                      [] OTHER -> <<"<","p","r","i","m","i","t","i","v","e",">">>]
      [] x.type = "LIT"    ->
           [ok |-> TRUE,
            out |-> CASE x.lit = "TRUE"  -> <<"#", "t">>
                      [] x.lit = "FALSE" -> <<"#", "f">>
                      [] x.lit = "NIL"   -> <<"(", ")">>]
      [] x.type = "LIST"   -> PrintElems(x.list, 1, <<"(">>)
      [] OTHER             -> [ok |-> TRUE, out |-> <<>>]

(***************************************************************************)
(* Drivers (nscm.cpp)                                                      *)
(***************************************************************************)
\* the body of the try block of repl and of eval_files for one expression
\* string: build, evaluate a Prim node, print.  stage is where it stopped.
RunForm(expr_str, g) ==
    LET result(ok, stage, val, err, out, g1) ==
            [ok |-> ok, stage |-> stage, val |-> val, err |-> err,
             out |-> out, g |-> g1]
        print(value, printed, g1) ==
            IF ~printed.ok
            THEN result(FALSE, "print", value, "OutOfRange", printed.out, g1)
            ELSE result(TRUE, "done", value, "", printed.out \o <<"\n">>, g1)
        show(value, g1) ==
            IF ~value.ok
            THEN result(FALSE, "eval", NullExpr, value.err, <<>>, g1)
            ELSE print(value.val, print_to_console(value.val), g1)
        run(expr) ==
            IF ~expr.ok
            THEN result(FALSE, "build", NullExpr, expr.err, <<>>, expr.g)
            ELSE IF expr.val.type = "PRIM"
            THEN show(eval(expr.val, NO_BINDING, GlobalEnv, expr.g, MaxDepth),
                      expr.g)
            ELSE show(Ok(expr.val), expr.g)
    IN  run(build_AST(expr_str, g))

\* what is left of the process after the try block: a call through a null
\* Env pointer is undefined behaviour (the process is killed, or the fault
\* surfaces as a failure of the expression); an exhausted stack kills it
Aftermath(r) ==
    IF r.err = "UB" THEN {"crashed", "running"}
    ELSE IF r.err = "StackOverflow" THEN {"crashed"}
    ELSE {"running"}

Outcome(expr_str, r) ==
    [src |-> expr_str, ok |-> r.ok, stage |-> r.stage, val |-> r.val,
     err |-> r.err, out |-> r.out]

NoOutcome(expr_str) ==
    [src |-> expr_str, ok |-> TRUE, stage |-> "none", val |-> NullExpr,
     err |-> "", out |-> <<>>]

tok_exit == <<"e", "x", "i", "t">>

\* one iteration of the loop of repl over the lines the input may hold
ReplIter(lines, max) ==
    /\ mode = "repl"
    /\ status = "running"
    /\ nread < max
    /\ \E expr_str \in lines :
         /\ nread' = nread + 1
         /\ prev_env' = global_env
         /\ IF Len(SrcText(expr_str)) < 1 \/ SrcText(expr_str) = tok_exit
            THEN /\ status' = "done"
                 /\ global_env' = global_env
                 /\ last' = NoOutcome(expr_str)
            ELSE LET step(r) ==
                         /\ global_env' = r.g
                         /\ last' = Outcome(expr_str, r)
                         /\ status' \in Aftermath(r)
                 IN  step(RunForm(expr_str, global_env))
    /\ UNCHANGED <<mode, files, file_i, form_i, evaluated, lexed,
                   cur_env, heap>>

\* eval_files between two files: the return after the last file, the
\* extension check, the open and the tokenising of the whole file
eval_files_open ==
    /\ mode = "files"
    /\ status = "running"
    /\ form_i = 0
    /\ IF file_i > Len(files)
       THEN status' = "done" /\ UNCHANGED <<file_i, form_i>>
       ELSE CASE files[file_i].kind \in {"noext", "missing"} ->
                   status' = "exit_failure" /\ UNCHANGED <<file_i, form_i>>
              [] files[file_i].kind = "unbalanced" ->
                   /\ file_i' = file_i + 1
                   /\ UNCHANGED <<status, form_i>>
              [] OTHER ->
                   /\ form_i' = 1
                   /\ UNCHANGED <<status, file_i>>
    /\ UNCHANGED <<mode, global_env, prev_env, last, nread, files, evaluated,
                   lexed,
                   cur_env, heap>>

\* eval_files inside a file: one round of the loop over its expressions;
\* a failure leaves the loop for the catch clauses and the next file
eval_files_form ==
    /\ mode = "files"
    /\ status = "running"
    /\ form_i >= 1
    /\ IF form_i > Len(files[file_i].forms)
       THEN /\ file_i' = file_i + 1
            /\ form_i' = 0
            /\ UNCHANGED <<status, global_env, prev_env, last, evaluated>>
       ELSE LET expr_str == files[file_i].forms[form_i]
                step(r) ==
                    /\ prev_env' = global_env
                    /\ global_env' = r.g
                    /\ last' = Outcome(expr_str, r)
                    /\ evaluated' = Append(evaluated, <<file_i, form_i>>)
                    /\ status' \in Aftermath(r)
                    /\ IF r.ok
                       THEN file_i' = file_i /\ form_i' = form_i + 1
                       ELSE file_i' = file_i + 1 /\ form_i' = 0
            IN  step(RunForm(expr_str, global_env))
    /\ UNCHANGED <<mode, nread, files, lexed,
                   cur_env, heap>>

(***************************************************************************)
(* Inputs: the expression strings the lines of a session and the files of  *)
(* a run are drawn from, each given with its source text.                  *)
(***************************************************************************)
tok_n    == <<"n">>
tok_if   == <<"i", "f">>
tok_fact == <<"f", "a", "c", "t">>
tok_define == <<"d", "e", "f", "i", "n", "e">>
tok_set    == <<"s", "e", "t", "!">>
tok_nil    == <<"n", "i", "l">>

src_empty == Atom(<<>>)
src_exit  == Atom(tok_exit)

\* (define x (+ z 1))
src_def_x_fwd ==
    Form(<<Atom(<<"d","e","f","i","n","e">>), Atom(<<"x">>), Form(<<Atom(<<"+">>), Atom(<<"z">>), Atom(<<"1">>)>>)>>)
\* (define z 5)
src_def_z ==
    Form(<<Atom(<<"d","e","f","i","n","e">>), Atom(<<"z">>), Atom(<<"5">>)>>)
\* x
src_x ==
    Atom(<<"x">>)
\* z
src_z ==
    Atom(<<"z">>)
\* (set! q 5)
src_set_q ==
    Form(<<Atom(<<"s","e","t","!">>), Atom(<<"q">>), Atom(<<"5">>)>>)
\* (define z (foo 1))
src_def_z_bad ==
    Form(<<Atom(<<"d","e","f","i","n","e">>), Atom(<<"z">>), Form(<<Atom(<<"f","o","o">>), Atom(<<"1">>)>>)>>)
\* (if #t 1 (define y 2))
src_if_define ==
    Form(<<Atom(<<"i","f">>), Atom(<<"#","t">>), Atom(<<"1">>), Form(<<Atom(<<"d","e","f","i","n","e">>), Atom(<<"y">>), Atom(<<"2">>)>>)>>)
\* (car 5)
src_car_bad ==
    Form(<<Atom(<<"c","a","r">>), Atom(<<"5">>)>>)
\* (foo 1)
src_foo ==
    Form(<<Atom(<<"f","o","o">>), Atom(<<"1">>)>>)
\* (define fact (lambda (n) (if (< n 2) 1 (* n (fact (- n 1))))))
src_fact ==
    Form(<<Atom(<<"d","e","f","i","n","e">>), Atom(<<"f","a","c","t">>), Form(<<Atom(<<"l","a","m","b","d","a">>), Form(<<Atom(<<"n">>)>>), Form(<<Atom(<<"i","f">>), Form(<<Atom(<<"<">>), Atom(<<"n">>), Atom(<<"2">>)>>), Atom(<<"1">>), Form(<<Atom(<<"*">>), Atom(<<"n">>), Form(<<Atom(<<"f","a","c","t">>), Form(<<Atom(<<"-">>), Atom(<<"n">>), Atom(<<"1">>)>>)>>)>>)>>)>>)>>)
\* (define n 3)
src_def_n ==
    Form(<<Atom(<<"d","e","f","i","n","e">>), Atom(<<"n">>), Atom(<<"3">>)>>)
\* (define inv (lambda (a) (/ 1 a)))
src_def_inv ==
    Form(<<Atom(<<"d","e","f","i","n","e">>), Atom(<<"i","n","v">>), Form(<<Atom(<<"l","a","m","b","d","a">>), Form(<<Atom(<<"a">>)>>), Form(<<Atom(<<"/">>), Atom(<<"1">>), Atom(<<"a">>)>>)>>)>>)
\* (+ (car 5) (inv 0))
src_sum_bad ==
    Form(<<Atom(<<"+">>), Form(<<Atom(<<"c","a","r">>), Atom(<<"5">>)>>), Form(<<Atom(<<"i","n","v">>), Atom(<<"0">>)>>)>>)
\* (+ (car 5) (foo 1))
src_sum_foo ==
    Form(<<Atom(<<"+">>), Form(<<Atom(<<"c","a","r">>), Atom(<<"5">>)>>), Form(<<Atom(<<"f","o","o">>), Atom(<<"1">>)>>)>>)
\* (define f (lambda (a b) (map (lambda (v) (f v)) b)))
src_def_f ==
    Form(<<Atom(<<"d","e","f","i","n","e">>), Atom(<<"f">>), Form(<<Atom(<<"l","a","m","b","d","a">>), Form(<<Atom(<<"a">>), Atom(<<"b">>)>>), Form(<<Atom(<<"m","a","p">>), Form(<<Atom(<<"l","a","m","b","d","a">>), Form(<<Atom(<<"v">>)>>), Form(<<Atom(<<"f">>), Atom(<<"v">>)>>)>>), Atom(<<"b">>)>>)>>)>>)
\* (f 1 '(1 2))
src_call_f ==
    Form(<<Atom(<<"f">>), Atom(<<"1">>), Quote(<<Atom(<<"1">>), Atom(<<"2">>)>>)>>)
\* (define h (lambda (a b) (filter (lambda (v) (h v 1)) b)))
src_def_h ==
    Form(<<Atom(<<"d","e","f","i","n","e">>), Atom(<<"h">>), Form(<<Atom(<<"l","a","m","b","d","a">>), Form(<<Atom(<<"a">>), Atom(<<"b">>)>>), Form(<<Atom(<<"f","i","l","t","e","r">>), Form(<<Atom(<<"l","a","m","b","d","a">>), Form(<<Atom(<<"v">>)>>), Form(<<Atom(<<"h">>), Atom(<<"v">>), Atom(<<"1">>)>>)>>), Atom(<<"b">>)>>)>>)>>)
\* (h 1 '(1 2))
src_call_h ==
    Form(<<Atom(<<"h">>), Atom(<<"1">>), Quote(<<Atom(<<"1">>), Atom(<<"2">>)>>)>>)
\* (fact)
src_fact_none ==
    Form(<<Atom(<<"f","a","c","t">>)>>)
\* (fact 1 2)
src_fact_two ==
    Form(<<Atom(<<"f","a","c","t">>), Atom(<<"1">>), Atom(<<"2">>)>>)
\* (map (lambda (a b) (+ a b)) '(1 2))
src_map_two ==
    Form(<<Atom(<<"m","a","p">>), Form(<<Atom(<<"l","a","m","b","d","a">>), Form(<<Atom(<<"a">>), Atom(<<"b">>)>>), Form(<<Atom(<<"+">>), Atom(<<"a">>), Atom(<<"b">>)>>)>>), Quote(<<Atom(<<"1">>), Atom(<<"2">>)>>)>>)
\* (map (lambda (a) (* a a)) '(1 2 3))
src_map_one ==
    Form(<<Atom(<<"m","a","p">>), Form(<<Atom(<<"l","a","m","b","d","a">>), Form(<<Atom(<<"a">>)>>), Form(<<Atom(<<"*">>), Atom(<<"a">>), Atom(<<"a">>)>>)>>), Quote(<<Atom(<<"1">>), Atom(<<"2">>), Atom(<<"3">>)>>)>>)
\* (if 1 2)
src_if_two ==
    Form(<<Atom(<<"i","f">>), Atom(<<"1">>), Atom(<<"2">>)>>)
\* (if 1 2 3 4)
src_if_four ==
    Form(<<Atom(<<"i","f">>), Atom(<<"1">>), Atom(<<"2">>), Atom(<<"3">>), Atom(<<"4">>)>>)
\* (lambda (v) (+ v 1))
cond_lambda ==
    Form(<<Atom(<<"l","a","m","b","d","a">>), Form(<<Atom(<<"v">>)>>), Form(<<Atom(<<"+">>), Atom(<<"v">>), Atom(<<"1">>)>>)>>)
\* (< 1 2)
cond_lt ==
    Form(<<Atom(<<"<">>), Atom(<<"1">>), Atom(<<"2">>)>>)
\* (> 1 2)
cond_gt ==
    Form(<<Atom(<<">">>), Atom(<<"1">>), Atom(<<"2">>)>>)
\* '(1)
cond_list ==
    Quote(<<Atom(<<"1">>)>>)

MaxInputs     == 3   \* lines read in a session of Spec
MaxEvalInputs == 2   \* lines read in a session of SpecEval
MaxFactArg    == 10  \* largest argument of fact
MaxFiles      == 2   \* files on the command line
MaxFileLen    == 2   \* expressions in a file
MaxOperand    == 7   \* largest magnitude of an integer operand
MaxArithInputs == 1  \* lines read in a session of SpecArith
MaxListInputs == 2   \* lines read in a session of SpecList
MaxEnvInputs  == 4   \* lines read in a session of SpecEnv

StopLines == {src_empty, src_exit}

CoreLines ==
    StopLines \cup
    {src_def_x_fwd, src_def_z, src_x, src_z, src_set_q, src_def_z_bad,
     src_if_define, src_car_bad}

\* (fact k)
FactCall(k) == Form(<<Atom(tok_fact), Atom(IntText(k))>>)

\* the condition expressions of the if forms
CondSrcs ==
    {Atom(<<"#", "t">>), Atom(<<"#", "f">>), Atom(tok_nil), Atom(<<"0">>),
     Atom(<<"1">>), Atom(<<"-", "1">>), Atom(<<"0", ".", "5">>),
     Atom(<<"0", ".", "0">>), Atom(<<"-", "0", ".", "5">>),
     Atom(<<"2", ".", "0">>), Atom(<<"\"", "a", "\"">>),
     cond_list, cond_lambda, cond_lt, cond_gt, src_car_bad, Atom(tok_n)}

\* (if c "y" '(1)), with tokens t and e for the two branches
IfForm(c, t, e) == Form(<<Atom(tok_if), c, t, e>>)

IfLines ==
    {IfForm(c, Atom(<<"1">>), Atom(<<"2">>)) : c \in CondSrcs}
    \cup {IfForm(c, Atom(<<"\"", "y", "\"">>), cond_list) :
            c \in {Atom(<<"1">>), Atom(<<"0">>)}}
    \cup {src_if_two, src_if_four}

EvalLines ==
    StopLines \cup IfLines
    \cup {FactCall(k) : k \in 0..MaxFactArg}
    \cup {src_fact, src_def_n, src_def_inv, src_sum_bad, src_sum_foo,
          src_def_f, src_call_f, src_def_h, src_call_h, src_fact_none,
          src_fact_two, src_map_two, src_map_one}

\* (op a b)
BinForm(op, a, b) == Form(<<Atom(op), a, b>>)

\* the token of a primitive
Tok(prim_type) == CHOOSE t \in DOMAIN token_table : token_table[t] = prim_type

IntAtoms == {Atom(IntText(a)) : a \in -MaxOperand..MaxOperand}

\* (- 0.5 0.5): a divisor that evaluates to Float 0
src_float_zero ==
    BinForm(<<"-">>, Atom(<<"0", ".", "5">>), Atom(<<"0", ".", "5">>))

\* (+ (* (/ a b) b) (mod a b))
DivModSum(a, b) ==
    Form(<<Atom(<<"+">>),
           Form(<<Atom(<<"*">>), BinForm(Tok("DIV"), a, b), b>>),
           BinForm(Tok("MOD"), a, b)>>)

\* the lines (/ a b), (mod a b) and (+ (* (/ a b) b) (mod a b)): the
\* dividends are integers, floats, a string, literals, lists and a closure,
\* the divisors also (- 1 1), which evaluates to Int 0
ArithLines ==
    LET Dividends ==
            IntAtoms
            \cup {Atom(<<"0", ".", "5">>), Atom(<<"-", "7", ".", "5">>),
                  Atom(<<"\"", "a", "\"">>), Atom(<<"#", "t">>), Atom(tok_nil),
                  cond_list, Quote(<<>>), cond_lambda}
        Divisors ==
            IntAtoms
            \cup {Atom(<<"0", ".", "0">>), Atom(<<"-", "0", ".", "0">>),
                  Atom(<<"0", ".", "5">>), src_float_zero,
                  BinForm(<<"-">>, Atom(<<"1">>), Atom(<<"1">>)),
                  Atom(<<"\"", "a", "\"">>), cond_list}
    IN  StopLines
        \cup {BinForm(op, a, b) : op \in {Tok("DIV"), Tok("MOD")},
                                  a \in Dividends, b \in Divisors}
        \cup {DivModSum(a, b) : a \in IntAtoms, b \in IntAtoms}

\* (op a)
UnForm(op, a) == Form(<<Atom(op), a>>)

\* (define l '(2 1 3))
src_def_l ==
    Form(<<Atom(tok_define), Atom(<<"l">>),
           Quote(<<Atom(<<"2">>), Atom(<<"1">>), Atom(<<"3">>)>>)>>)

\* the lines (cons x l), (car (cons x l)), (cdr (cons x l)),
\* (null? (cdr (cons x l))) and (null? l): x is a value that is no list, or
\* '(1); l is a list of 0 to 3 elements, the name l, or 2; and the lines
\* (filter p l)
ListLines ==
    LET ConsHeads ==
            {Atom(<<"1">>), Atom(<<"0", ".", "5">>), Atom(<<"\"", "a", "\"">>),
             Atom(<<"#", "t">>), Atom(tok_nil), cond_lambda, cond_list}
        ConsTails ==
            {Quote(<<>>), cond_list, Quote(<<Atom(<<"1">>), Atom(<<"2">>)>>),
             Quote(<<Atom(<<"\"", "a", "\"">>), Atom(<<"#", "t">>),
                     Atom(<<"3">>)>>),
             Atom(<<"l">>), Atom(<<"2">>)}
        ConsLines(x, l) ==
            {BinForm(Tok("CONS"), x, l),
             UnForm(Tok("CAR"), BinForm(Tok("CONS"), x, l)),
             UnForm(Tok("CDR"), BinForm(Tok("CONS"), x, l)),
             UnForm(Tok("IS_NULL"), UnForm(Tok("CDR"), BinForm(Tok("CONS"), x, l))),
             UnForm(Tok("IS_NULL"), l)}
        \* (lambda (v) (> v 1)), and deciders that return an Int, Lit(Nil),
        \* and an Int from the element 3 on; 1 is no procedure
        Deciders ==
            {Form(<<Atom(<<"l","a","m","b","d","a">>), Form(<<Atom(<<"v">>)>>),
                    BinForm(Tok("GT"), Atom(<<"v">>), Atom(<<"1">>))>>),
             cond_lambda,
             Form(<<Atom(<<"l","a","m","b","d","a">>), Form(<<Atom(<<"v">>)>>),
                    UnForm(Tok("CAR"), Quote(<<>>))>>),
             Form(<<Atom(<<"l","a","m","b","d","a">>), Form(<<Atom(<<"v">>)>>),
                    Form(<<Atom(tok_if),
                           BinForm(Tok("LT"), Atom(<<"v">>), Atom(<<"3">>)),
                           BinForm(Tok("GT"), Atom(<<"v">>), Atom(<<"1">>)),
                           Atom(<<"v">>)>>)>>),
             Atom(<<"1">>)}
        Filtered ==
            {Quote(<<>>), cond_list, Quote(<<Atom(<<"1">>), Atom(<<"2">>)>>),
             Quote(<<Atom(<<"2">>), Atom(<<"1">>), Atom(<<"2">>)>>),
             Quote(<<Atom(<<"1">>), Atom(<<"2">>), Atom(<<"3">>)>>),
             Atom(<<"l">>), Atom(<<"2">>)}
    IN  StopLines \cup {src_def_l, Atom(<<"l">>)}
        \cup UNION {ConsLines(x, l) : x \in ConsHeads, l \in ConsTails}
        \cup {BinForm(Tok("FILTER"), p, l) : p \in Deciders, l \in Filtered}
        \cup {BinForm(Tok("FILTER"),
                      Form(<<Atom(<<"l","a","m","b","d","a">>), Form(<<Atom(<<"v">>)>>),
                             UnForm(Tok("IS_PROC"), Atom(<<"v">>))>>),
                      l) : l \in {BinForm(Tok("CONS"), cond_lambda, Quote(<<>>)),
                                  Quote(<<Atom(<<"1">>)>>)}}

FileForms == {src_def_z, src_foo, src_z}

SeqsUpTo(S, n) == UNION {[1..k -> S] : k \in 0..n}

\* the lines of a session about frames and closures: defines at top level
\* and inside a lambda body, a procedure that returns a closure, a procedure
\* that calls another, a parameter named as a global, assignments that
\* fail, and the lookups of x and w
EnvLines ==
    LET name(c) == Atom(<<c>>)
        def(c, e) == Form(<<Atom(tok_define), name(c), e>>)
        lam(c, body) ==
            Form(<<Atom(<<"l","a","m","b","d","a">>), Form(<<name(c)>>), body>>)
        call(f, a) == Form(<<f, a>>)
        plus(a, b) == BinForm(<<"+">>, a, b)
        foo1 == call(Atom(<<"f","o","o">>), name("1"))
    IN  StopLines \cup {src_fact, FactCall(2)} \cup
        {def("x", Atom(<<"1","0">>)),                       \* (define x 10)
         def("n", Atom(<<"1","0","0">>)),                   \* (define n 100)
         \* (define k (lambda (n) (lambda (x) (+ x n))))
         def("k", lam("n", lam("x", plus(name("x"), name("n"))))),
         def("a", call(name("k"), name("5"))),              \* (define a (k 5))
         call(name("a"), name("3")),                        \* (a 3)
         call(call(name("k"), name("5")), name("3")),       \* ((k 5) 3)
         \* (define f (lambda (y) (+ y 1)))
         def("f", lam("y", plus(name("y"), name("1")))),
         \* (define g (lambda (x) (f x)))
         def("g", lam("x", call(name("f"), name("x")))),
         call(name("g"), name("5")),                        \* (g 5)
         call(name("f"), name("5")),                        \* (f 5)
         \* ((lambda (x) (+ x 1)) 5)
         call(lam("x", plus(name("x"), name("1"))), name("5")),
         \* (define h (lambda (v) (define w 1)))
         def("h", lam("v", def("w", name("1")))),
         call(name("h"), name("2")),                        \* (h 2)
         def("x", foo1),                                    \* (define x (foo 1))
         Form(<<Atom(tok_set), name("x"), foo1>>),          \* (set! x (foo 1))
         name("x"), name("w")}

\* a file that is read and tokenised, and the three that are not: a name
\* without .scm, a file that cannot be opened, a text parse_expr rejects
FileSet ==
    {[kind |-> "scm", forms |-> f] : f \in SeqsUpTo(FileForms, MaxFileLen)}
    \cup {[kind |-> k, forms |-> <<>>] : k \in {"noext", "missing", "unbalanced"}}

FileArgs == UNION {[1..k -> FileSet] : k \in 1..MaxFiles}

(***************************************************************************)
(* parse_expr (parser.cpp) on the characters of its argument.  idx counts  *)
(* from 0 as in the source: At(expr, idx) is expr[idx].                    *)
(***************************************************************************)
MaxSrcLen == 5

At(expr, idx) == expr[idx + 1]

\* parsed is the word up to a blank, a newline or a ")"; idx is where the
\* loop ends
read_til_space(expr) ==
    LET RECURSIVE loop(_)
        loop(idx) ==
            IF idx < Len(expr) /\ At(expr, idx) \notin {" ", "\n", ")"}
            THEN loop(idx + 1)
            ELSE idx
        word(idx) == [parsed |-> SubSeq(expr, 1, idx), idx |-> idx]
    IN  word(loop(0))

\* parsed is the text from the first "(" to the ")" that closes it; ok is
\* false for the two throws (no "(", bracket_stack not 0 at the end)
read_til_end_bracket(expr) ==
    LET RECURSIVE loop(_, _)
        loop(idx, bracket_stack) ==
            IF bracket_stack # 0 /\ idx < Len(expr)
            THEN loop(idx + 1,
                      CASE At(expr, idx) = "(" -> bracket_stack + 1
                        [] At(expr, idx) = ")" -> bracket_stack - 1
                        [] OTHER               -> bracket_stack)
            ELSE [idx |-> idx, bracket_stack |-> bracket_stack]
        opens == {i \in 0..(Len(expr) - 1) : At(expr, i) = "("}
        found == CHOOSE i \in opens : \A j \in opens : i <= j
        scan(end) ==
            IF end.bracket_stack # 0
            THEN [ok |-> FALSE, parsed |-> <<>>, idx |-> end.idx]
            ELSE [ok |-> TRUE, parsed |-> SubSeq(expr, found + 1, end.idx),
                  idx |-> end.idx]
    IN  IF opens = {} THEN [ok |-> FALSE, parsed |-> <<>>, idx |-> 0]
        ELSE scan(loop(found + 1, 1))

\* a call of parse_expr: pc is "start" before the checks, "loop" at the
\* test of the while loop, "returned", "failed" (a throw) or "crashed";
\* outside tells that a character beyond expr[expr.size()] was read
Lexing(expr, pc, idx, res, err, outside) ==
    [expr |-> expr, pc |-> pc, idx |-> idx, res |-> res, err |-> err,
     outside |-> outside]

NotCalled == Lexing(<<>>, "none", 0, <<>>, "", FALSE)

\* the two checks of parse_expr before the loop
ParseChecks(expr) ==
    IF Len(expr) = 0 THEN Lexing(expr, "failed", 0, <<>>, "SyntaxError", FALSE)
    ELSE IF expr[1] # "(" \/ expr[Len(expr)] # ")"
         THEN Lexing(expr, "failed", 0, <<>>, "SyntaxError", FALSE)
    ELSE Lexing(expr, "loop", 1, <<>>, "", FALSE)

\* one test of the while loop and, if it holds, one round of its body.  A
\* comment with no newline up to expr[expr.size()] makes the inner loop read
\* beyond the string, which is undefined: pc "undefined" stands for it, with
\* the idx of the first character that is not the string's
ParseRound(expr, idx, res) ==
    LET c == At(expr, idx)
        bracketed(rb, quote, skipped) ==
            IF ~rb.ok
            THEN Lexing(expr, "failed", idx, res, "SyntaxError", FALSE)
            ELSE Lexing(expr, "loop", idx + skipped + rb.idx,
                        Append(res, quote \o rb.parsed), "", FALSE)
        word(rs) ==
            Lexing(expr, "loop", idx + rs.idx, Append(res, rs.parsed), "", FALSE)
        newlines == {i \in idx..(Len(expr) - 1) : At(expr, i) = "\n"}
        substr(pos) == SubSeq(expr, pos + 1, Len(expr))
    IN
    CASE ~(idx < Len(expr) - 1) -> Lexing(expr, "returned", idx, res, "", FALSE)
      [] idx < Len(expr) - 1 /\ c = "(" ->
           bracketed(read_til_end_bracket(substr(idx)), <<>>, 0)
      [] idx < Len(expr) - 1 /\ c = "'" /\ At(expr, idx + 1) = "(" ->
           bracketed(read_til_end_bracket(substr(idx + 1)), <<"'">>, 1)
      [] idx < Len(expr) - 1 /\ c = ";" ->
           IF newlines # {}
           THEN Lexing(expr, "loop",
                       CHOOSE i \in newlines : \A j \in newlines : i <= j,
                       res, "", FALSE)
           ELSE Lexing(expr, "undefined", Len(expr) + 1, res, "", TRUE)
      [] idx < Len(expr) - 1 /\ c \in {" ", "\n"} ->
           Lexing(expr, "loop", idx + 1, res, "", FALSE)
      [] idx < Len(expr) - 1 /\ c = ")" ->
           Lexing(expr, "failed", idx, res, "SyntaxError", FALSE)
      [] OTHER -> word(read_til_space(substr(idx)))

\* parse_expr as a function of its argument: where the call ends
parse_expr(expr) ==
    LET RECURSIVE loop(_)
        loop(lx) ==
            IF lx.pc = "loop" THEN loop(ParseRound(lx.expr, lx.idx, lx.res))
            ELSE lx
    IN  loop(ParseChecks(expr))

\* the strings parse_expr is called with
Sources ==
    UNION {[1..n -> {"(", ")", "'", ";", " ", "\n", "a"}] : n \in 0..MaxSrcLen}

\* the call of parse_expr up to its loop
parse_expr_enter ==
    /\ mode = "parse"
    /\ lexed.pc = "start"
    /\ lexed' = ParseChecks(lexed.expr)
    /\ UNCHANGED <<mode, status, global_env, prev_env, last, nread, files,
                   file_i, form_i, evaluated,
                   cur_env, heap>>

\* one test of the loop of parse_expr, with the round it lets in; after a
\* read beyond the string the process is killed, or the loop goes on with
\* the idx at which a newline was found
parse_expr_round ==
    /\ mode = "parse"
    /\ lexed.pc = "loop"
    /\ LET step(lx) ==
               IF lx.pc = "undefined"
               THEN \/ lexed' = [lx EXCEPT !.pc = "crashed"] /\ status' = "crashed"
                    \/ lexed' = [lx EXCEPT !.pc = "loop"] /\ status' = status
               ELSE lexed' = lx /\ status' = status
       IN  step(ParseRound(lexed.expr, lexed.idx, lexed.res))
    /\ UNCHANGED <<mode, global_env, prev_env, last, nread, files, file_i,
                   form_i, evaluated,
                   cur_env, heap>>

(***************************************************************************)
(* Specifications                                                          *)
(***************************************************************************)
InitRepl ==
    /\ mode = "repl"
    /\ status = "running"
    /\ global_env = EmptyFrame
    /\ prev_env = EmptyFrame
    /\ last = NoOutcome(src_empty)
    /\ nread = 0
    /\ files = <<>>
    /\ file_i = 1
    /\ form_i = 0
    /\ evaluated = <<>>
    /\ lexed = NotCalled
    /\ cur_env = GlobalEnv
    /\ heap = <<>>

InitFiles ==
    /\ mode = "files"
    /\ status = "running"
    /\ global_env = EmptyFrame
    /\ prev_env = EmptyFrame
    /\ last = NoOutcome(src_empty)
    /\ nread = 0
    /\ files \in FileArgs
    /\ file_i = 1
    /\ form_i = 0
    /\ evaluated = <<>>
    /\ lexed = NotCalled
    /\ cur_env = GlobalEnv
    /\ heap = <<>>

\* main: no argument starts repl, file names start eval_files
Init == InitRepl \/ InitFiles

repl == ReplIter(CoreLines, MaxInputs)

Next == repl \/ eval_files_open \/ eval_files_form

Spec == Init /\ [][Next]_vars

\* sessions of repl over the expression forms
repl_eval == ReplIter(EvalLines, MaxEvalInputs)

NextEval == repl_eval

SpecEval == InitRepl /\ [][NextEval]_vars

\* sessions of repl over the arithmetic forms
repl_arith == ReplIter(ArithLines, MaxArithInputs)

NextArith == repl_arith

SpecArith == InitRepl /\ [][NextArith]_vars

\* sessions of repl over the list forms
repl_list == ReplIter(ListLines, MaxListInputs)

NextList == repl_list

SpecList == InitRepl /\ [][NextList]_vars

repl_env == ReplIter(EnvLines, MaxEnvInputs)

NextEnv == repl_env

SpecEnv == InitRepl /\ [][NextEnv]_vars

(***************************************************************************)
(* The assignment cases of eval_prim (expr.cpp) applied in an Env of call  *)
(* frames: cur_env is the Env, first the frame eval_proc made last, and    *)
(* global_env the frame its chain ends in.                                 *)
(***************************************************************************)
MaxFrames == 2   \* call frames in front of the global frame

\* set! as an assignment to the frame that owns the name
var_assign_owner(prim_type, e, g, name, v) ==
    LET i == FrameWalk(e.fr, 1, name) IN
    IF prim_type = "SET" /\ ~is_in_env(e, g, name)
    THEN [ok |-> FALSE, e |-> e, g |-> g]
    ELSE IF prim_type = "SET" /\ i # 0
    THEN [ok |-> TRUE, e |-> [e EXCEPT !.fr[i] = FramePut(e.fr[i], name, v)], g |-> g]
    ELSE IF e.fr = <<>> \/ prim_type = "SET"
    THEN [ok |-> TRUE, e |-> e, g |-> FramePut(g, name, v)]
    ELSE [ok |-> TRUE, e |-> add_key_value_pair(e, name, v), g |-> g]

\* the DEFINE and SET cases of eval_prim in the Env e whose chain ends in
\* the global frame g, once the name is evaluated: whether the case
\* returns, and e and g afterwards
var_assign(prim_type, e, g, name, v) ==
    IF prim_type = "SET" /\ ~is_in_env(e, g, name)
    THEN [ok |-> FALSE, e |-> e, g |-> g]
    ELSE IF e.fr = <<>>
    THEN [ok |-> TRUE, e |-> e, g |-> FramePut(g, name, v)]
    ELSE [ok |-> TRUE, e |-> add_key_value_pair(e, name, v), g |-> g]

InitFrames ==
    /\ mode = "frames"
    /\ status = "running"
    /\ global_env = EmptyFrame
    /\ prev_env = EmptyFrame
    /\ last = [op |-> "none", name |-> <<>>, val |-> NullExpr, ok |-> TRUE, owner |-> 0]
    /\ nread = 0
    /\ files = <<>>
    /\ file_i = 1
    /\ form_i = 0
    /\ evaluated = <<>>
    /\ lexed = NotCalled
    /\ cur_env = GlobalEnv
    /\ heap = <<>>

\* eval_proc entering a call: new Env(env) on the current Env
new_Env ==
    /\ mode = "frames"
    /\ Len(cur_env.fr) < MaxFrames
    /\ cur_env' = EnvChild(cur_env)
    /\ last' = [op |-> "new", name |-> <<>>, val |-> NullExpr, ok |-> TRUE, owner |-> 0]
    /\ UNCHANGED <<mode, status, global_env, prev_env, nread, files, file_i,
                   form_i, evaluated, lexed, heap>>

\* eval_prim of a DEFINE or SET node whose arguments are the name and the
\* expression v, in the current Env; owner is the frame of the chain that
\* held the name before (0: none of the call frames)
eval_prim_assign ==
    /\ mode = "frames"
    /\ \E prim_type \in {"DEFINE", "SET"}, name \in {<<"x">>, <<"y">>},
          v \in {IntE(1), IntE(2)} :
         LET r == var_assign(prim_type, cur_env, global_env, name, v) IN
         /\ cur_env' = r.e
         /\ global_env' = r.g
         /\ prev_env' = global_env
         /\ last' = [op |-> prim_type, name |-> name, val |-> v, ok |-> r.ok,
                     owner |-> FrameWalk(cur_env.fr, 1, name)]
    /\ UNCHANGED <<mode, status, nread, files, file_i, form_i, evaluated,
                   lexed, heap>>

\* make_var_assignment before it builds the value: the name is bound to
\* nullptr in the env of the builder, which is the global one
make_var_assignment_placeholder ==
    /\ mode = "frames"
    /\ \E name \in {<<"x">>, <<"y">>} :
         /\ global_env' = FramePut(global_env, name, NullExpr)
         /\ last' = [op |-> "placeholder", name |-> name, val |-> NullExpr,
                     ok |-> TRUE, owner |-> FrameWalk(cur_env.fr, 1, name)]
    /\ prev_env' = global_env
    /\ UNCHANGED <<mode, status, nread, files, file_i, form_i, evaluated,
                   lexed, cur_env, heap>>

SpecFrames ==
    InitFrames
    /\ [][new_Env \/ eval_prim_assign \/ make_var_assignment_placeholder]_vars

(***************************************************************************)
(* ast.c: mkLit.  heap[a] is the struct Exp at the address a that malloc   *)
(* returned; address 0 is NULL.  A Value is held as the struct it points   *)
(* to.                                                                     *)
(***************************************************************************)
MaxExps == 3   \* struct Exp objects the heap has room for

InitAst ==
    /\ mode = "ast"
    /\ status = "running"
    /\ global_env = EmptyFrame
    /\ prev_env = EmptyFrame
    /\ last = [op |-> "none", literal |-> [type |-> "NIL"], exp |-> 0]
    /\ nread = 0
    /\ files = <<>>
    /\ file_i = 1
    /\ form_i = 0
    /\ evaluated = <<>>
    /\ lexed = NotCalled
    /\ cur_env = GlobalEnv
    /\ heap = <<>>

\* mkLit storing the tag of mkVar
mkLit_tagged_VAR ==
    /\ mode = "ast"
    /\ status = "running"
    /\ \E literal \in {[type |-> "NUM", num |-> 1000], [type |-> "NUM", num |-> 0],
                        [type |-> "BOOLV", boolv |-> TRUE], [type |-> "NIL"],
                        [type |-> "SYM", sym |-> "a"]} :
         \/ /\ Len(heap) < MaxExps
            /\ heap' = Append(heap, [type |-> "VAR", u |-> [literal |-> literal]])
            /\ last' = [op |-> "mkLit", literal |-> literal, exp |-> Len(heap) + 1]
            /\ UNCHANGED status
         \/ /\ status' = "crashed"
            /\ last' = [op |-> "mkLit", literal |-> literal, exp |-> 0]
            /\ UNCHANGED heap
    /\ UNCHANGED <<mode, global_env, prev_env, nread, files, file_i, form_i,
                   evaluated, lexed, cur_env>>

\* Exp mkLit(Value literal): malloc returns a new address, or NULL, at
\* which assert(exp) ends the process; last.exp is the Exp returned
mkLit ==
    /\ mode = "ast"
    /\ status = "running"
    /\ \E literal \in {[type |-> "NUM", num |-> 1000], [type |-> "NUM", num |-> 0],
                        [type |-> "BOOLV", boolv |-> TRUE], [type |-> "NIL"],
                        [type |-> "SYM", sym |-> "a"]} :
         \/ /\ Len(heap) < MaxExps
            /\ heap' = Append(heap, [type |-> "LITERAL", u |-> [literal |-> literal]])
            /\ last' = [op |-> "mkLit", literal |-> literal, exp |-> Len(heap) + 1]
            /\ UNCHANGED status
         \/ /\ status' = "crashed"
            /\ last' = [op |-> "mkLit", literal |-> literal, exp |-> 0]
            /\ UNCHANGED heap
    /\ UNCHANGED <<mode, global_env, prev_env, nread, files, file_i, form_i,
                   evaluated, lexed, cur_env>>

SpecAst == InitAst /\ [][mkLit]_vars

\* parse_expr called with any string of up to MaxSrcLen characters
InitParse ==
    /\ mode = "parse"
    /\ status = "running"
    /\ global_env = EmptyFrame
    /\ prev_env = EmptyFrame
    /\ last = NoOutcome(src_empty)
    /\ nread = 0
    /\ files = <<>>
    /\ file_i = 1
    /\ form_i = 0
    /\ evaluated = <<>>
    /\ lexed \in {Lexing(expr, "start", 0, <<>>, "", FALSE) : expr \in Sources}
    /\ cur_env = GlobalEnv
    /\ heap = <<>>

NextParse == parse_expr_enter \/ parse_expr_round

SpecParse == InitParse /\ [][NextParse]_vars

(***************************************************************************)
(* Properties                                                              *)
(***************************************************************************)
\* C1: once (define name expr) has been processed, a later line that is the
\* identifier name returns the value of the defined expression, evaluated
\* with the identifiers defined by then.
C1_DefineThenLookup ==
    (last.stage # "none" /\ last.src.k = "atom" /\ last.src.s \in DOMAIN prev_env)
    => LET bound == prev_env[last.src.s] IN
       IF bound.type = "NULL" THEN TRUE
       ELSE LET value == eval(bound, NO_BINDING, GlobalEnv, prev_env, MaxDepth)
            IN  value.ok => (last.ok /\ last.val = value.val)

\* C2: (set! name expr) with name bound in no frame fails with
\* UnboundIdentifier.
C2_SetUnboundFails ==
    (/\ last.src.k = "form"
     /\ Len(last.src.items) = 3
     /\ SrcText(last.src.items[1]) = tok_set
     /\ SrcText(last.src.items[2]) \notin DOMAIN prev_env)
    => (~last.ok /\ last.err = "UnboundIdentifier")

\* C3: in a session of repl a binding made by a successful define keeps
\* being looked up with the same value by every later line, failing lines
\* included, until a define or set! of the same name succeeds.
C3_BindingVisibleUntilAssigned ==
    [][mode = "repl" =>
         \A name \in DOMAIN global_env :
             LET assigned ==
                     /\ last'.ok
                     /\ last'.src.k = "form"
                     /\ Len(last'.src.items) = 3
                     /\ SrcText(last'.src.items[1]) \in {tok_define, tok_set}
                     /\ SrcText(last'.src.items[2]) = name
                 before == make_const(name, global_env)
                 after  == make_const(name, global_env')
             IN  (global_env[name].type # "NULL" /\ ~assigned)
                 => /\ after.ok = before.ok
                    /\ after.val = before.val
                    /\ after.err = before.err]_vars

\* C4: the loop of repl has ended exactly when the line read last is empty
\* or is exit; no failure of a line ends it.
C4_ReplEndsOnlyOnEmptyOrExit ==
    mode = "repl" =>
        ((status # "running")
         <=> (nread > 0 /\ SrcText(last.src) \in {<<>>, tok_exit}))

\* C5: a run over files that came to its end has built and evaluated every
\* form of every file in source order, the forms after a failing one
\* included.
C5_LaterFormsStillRun ==
    (mode = "files" /\ status = "done") =>
        LET forms_of(i) == [j \in 1..Len(files[i].forms) |-> <<i, j>>]
            RECURSIVE from(_)
            from(i) == IF i > Len(files) THEN <<>>
                       ELSE forms_of(i) \o from(i + 1)
        IN  evaluated = from(1)

\* C6: with fact bound to the lambda of
\* (define fact (lambda (n) (if (< n 2) 1 (* n (fact (- n 1)))))), n being
\* its parameter, the line (fact k) returns k! for every k in 0..MaxFactArg.
C6_FactReturnsFactorial ==
    LET RECURSIVE factorial(_)
        factorial(k) == IF k = 0 THEN 1 ELSE k * factorial(k - 1)
        lambda == make_lambda(src_fact.items[3].items,
                              FramePut(EmptyFrame, tok_fact, NullExpr)).val
    IN  \A k \in 0..MaxFactArg :
            (/\ last.src = FactCall(k)
             /\ tok_fact \in DOMAIN prev_env
             /\ prev_env[tok_fact] = lambda)
            => (last.ok /\ last.val = IntE(factorial(k)))

\* C6, reached: (fact MaxFactArg) has returned.
C6_Witness_FactOfMax ==
    /\ last.src = FactCall(MaxFactArg)
    /\ last.ok
    /\ last.stage = "done"
    /\ last.val.type = "INT"

\* C7: (if c t e) returns the value of t when c evaluates to #t, to an Int
\* above 0 or to a Float above 0, the value of e for every other value of
\* c, and fails when its number of arguments is not 3.
C7_IfSelectsByTruthiness ==
    LET value(t) ==
            LET built(b) ==
                    IF ~b.ok THEN Fail(b.err)
                    ELSE eval(b.val, NO_BINDING, GlobalEnv, prev_env, MaxDepth)
            IN  built(build_AST(t, prev_env))
        is_if == /\ last.src.k = "form"
                 /\ Len(last.src.items) >= 1
                 /\ SrcText(last.src.items[1]) = tok_if
        chosen(c) ==
            IF \/ c = LitE("TRUE")
               \/ c.type = "INT" /\ c.ival > 0
               \/ c.type = "FLOAT" /\ c.fnum > 0
            THEN 3 ELSE 4
        selects(c) ==
            IF ~c.ok THEN ~last.ok
            ELSE /\ last.ok
                 /\ last.val = value(last.src.items[chosen(c.val)]).val
    IN  /\ (is_if /\ Len(last.src.items) = 4)
               => selects(value(last.src.items[2]))
        /\ (is_if /\ Len(last.src.items) # 4)
               => (~last.ok /\ last.err = "ArityMismatch")

\* C7, reached: (if 0.5 1 2) has returned 1.
C7_Witness_HalfIsTrue ==
    /\ last.src = IfForm(Atom(<<"0", ".", "5">>), Atom(<<"1">>), Atom(<<"2">>))
    /\ last.ok
    /\ last.val = IntE(1)

\* C8: of (if c t e) only the selected branch is evaluated: the form ends
\* as it does with nil in the place of the other branch, with the same
\* result and the same global frame.
C8_OnlySelectedBranchRuns ==
    LET value(t) ==
            LET built(b) ==
                    IF ~b.ok THEN Fail(b.err)
                    ELSE eval(b.val, NO_BINDING, GlobalEnv, prev_env, MaxDepth)
            IN  built(build_AST(t, prev_env))
        skipped(c) ==
            IF \/ c = LitE("TRUE")
               \/ c.type = "INT" /\ c.ival > 0
               \/ c.type = "FLOAT" /\ c.fnum > 0
            THEN 4 ELSE 3
        same(r) ==
            /\ last.ok = r.ok
            /\ last.err = r.err
            /\ last.val = r.val
            /\ global_env = r.g
        alone(c) ==
            c.ok => same(RunForm(Form([last.src.items EXCEPT
                                          ![skipped(c.val)] = Atom(tok_nil)]),
                                 prev_env))
    IN  (/\ last.src.k = "form"
         /\ Len(last.src.items) = 4
         /\ SrcText(last.src.items[1]) = tok_if)
        => alone(value(last.src.items[2]))

\* C9: the arguments of a primitive application or procedure call are
\* evaluated from left to right, so the failure of the form is the failure
\* of the leftmost argument that fails.
C9_LeftmostFailureReported ==
    LET value(t) ==
            LET built(b) ==
                    IF ~b.ok THEN Fail(b.err)
                    ELSE eval(b.val, NO_BINDING, GlobalEnv, prev_env, MaxDepth)
            IN  built(build_AST(t, prev_env))
        items   == last.src.items
        failing == {i \in 2..Len(items) : ~value(items[i]).ok}
        first   == CHOOSE i \in failing : \A j \in failing : i <= j
    IN  (/\ last.src.k = "form"
         /\ Len(items) >= 2
         /\ SrcText(items[1]) \notin
                {tok_if, tok_define, tok_set, <<"l", "a", "m", "b", "d", "a">>}
         /\ failing # {})
        => (~last.ok /\ last.err = value(items[first]).err)

\* C10: a call of a procedure of k parameters with m arguments fails with
\* ArityMismatch exactly when m = 0 or m # k: the call of the line itself,
\* the call map or filter makes with one element, and the deferred
\* recursive calls in the body of the procedure called.
C10_ArityMismatchExactly ==
    LET arity_fail == ~last.ok /\ last.err = "ArityMismatch"
        bad(m, k)  == m = 0 \/ m # k
        items      == last.src.items
        is_lambda(name) ==
            /\ name \in DOMAIN prev_env
            /\ prev_env[name].type = "PRIM"
            /\ prev_env[name].prim = "LAMBDA"
        params(name) == prev_env[name].args[1].list
        RECURSIVE deferred(_)
        deferred(x) ==
            CASE x.type = "PROC" /\ x.body.type = "SYMBOL" ->
                   {x} \cup UNION {deferred(x.params.list[i]) :
                                      i \in DOMAIN x.params.list}
              [] x.type = "PROC" /\ x.body.type # "SYMBOL" -> deferred(x.body)
              [] x.type = "PRIM" ->
                   UNION {deferred(x.args[i]) : i \in DOMAIN x.args}
              [] x.type = "LIST" ->
                   UNION {deferred(x.list[i]) : i \in DOMAIN x.list}
              [] OTHER -> {}
        inner_bad(name) ==
            \E d \in deferred(prev_env[name]) :
                /\ is_lambda(d.body.name)
                /\ bad(Len(d.params.list), Len(params(d.body.name)))
    IN  /\ (/\ last.src.k = "form"
            /\ Len(items) >= 1
            /\ is_lambda(SrcText(items[1])))
           => (arity_fail <=> (\/ bad(Len(items) - 1,
                                      Len(params(SrcText(items[1]))))
                               \/ inner_bad(SrcText(items[1]))))
        /\ (/\ last.src.k = "form"
            /\ Len(items) = 3
            /\ SrcText(items[1]) \in {<<"m", "a", "p">>,
                                      <<"f", "i", "l", "t", "e", "r">>}
            /\ items[2].k = "form"
            /\ Len(items[2].items) = 3
            /\ SrcText(items[2].items[1]) = <<"l", "a", "m", "b", "d", "a">>)
           => (arity_fail <=> bad(1, Len(items[2].items[2].items)))

C12_DivModRecomposes ==
    \A a, b \in -MaxOperand..MaxOperand :
        (b # 0 /\ last.src = DivModSum(Atom(IntText(a)), Atom(IntText(b))))
        => (last.ok /\ last.val = IntE(a))

\* C12, reached: (+ (* (/ -7 2) 2) (mod -7 2)) has returned -7.
C12_Witness_NegativeDividend ==
    /\ last.src = DivModSum(Atom(IntText(-MaxOperand)), Atom(IntText(2)))
    /\ last.ok
    /\ last.val = IntE(-MaxOperand)

\* C13: for every list l, the empty list and the lists of one element
\* included, and every value x that is no list, (cdr (cons x l)) evaluates to
\* a List equal to l, so that (null? (cdr (cons x l))) is accepted and
\* answers as (null? l) does.
C13_CdrOfConsIsTail ==
    LET value(t) ==
            LET built(b) ==
                    IF ~b.ok THEN Fail(b.err)
                    ELSE eval(b.val, NO_BINDING, GlobalEnv, prev_env, MaxDepth)
            IN  built(build_AST(t, prev_env))
        evaluated_to(v) == last.stage \in {"print", "done"} /\ last.val = v
        is_cons(t) ==
            /\ t.k = "form"
            /\ Len(t.items) = 3
            /\ SrcText(t.items[1]) = Tok("CONS")
            /\ value(t.items[2]).ok
            /\ value(t.items[2]).val.type # "LIST"
            /\ value(t.items[3]).ok
            /\ value(t.items[3]).val.type = "LIST"
        is_op(t, op) ==
            t.k = "form" /\ Len(t.items) = 2 /\ SrcText(t.items[1]) = op
        cdr_cons(t) == is_op(t, Tok("CDR")) /\ is_cons(t.items[2])
        tail(t) == t.items[2].items[3]
    IN  /\ cdr_cons(last.src) => evaluated_to(value(tail(last.src)).val)
        /\ (is_op(last.src, Tok("IS_NULL")) /\ cdr_cons(last.src.items[2]))
           => evaluated_to(value(UnForm(Tok("IS_NULL"), tail(last.src.items[2]))).val)

\* C14: for every list l and every value x that is no list, (car (cons x l))
\* evaluates to x; (cons x l) is a new list of one element more than l and
\* leaves what l is bound to as it was; cons of a list onto anything, or of
\* anything onto a value that is no list, fails with TypeError.
C14_CarOfConsIsHead ==
    LET value(t) ==
            LET built(b) ==
                    IF ~b.ok THEN Fail(b.err)
                    ELSE eval(b.val, NO_BINDING, GlobalEnv, prev_env, MaxDepth)
            IN  built(build_AST(t, prev_env))
        evaluated_to(v) == last.stage \in {"print", "done"} /\ last.val = v
        cons_of_values(t) ==
            /\ t.k = "form"
            /\ Len(t.items) = 3
            /\ SrcText(t.items[1]) = Tok("CONS")
            /\ value(t.items[2]).ok
            /\ value(t.items[3]).ok
        well_typed(t) ==
            /\ value(t.items[2]).val.type # "LIST"
            /\ value(t.items[3]).val.type = "LIST"
        consed(t) ==
            ListE(<<value(t.items[2]).val>> \o value(t.items[3]).val.list)
        car_cons(t) ==
            /\ t.k = "form"
            /\ Len(t.items) = 2
            /\ SrcText(t.items[1]) = Tok("CAR")
            /\ cons_of_values(t.items[2])
            /\ well_typed(t.items[2])
    IN  /\ car_cons(last.src)
           => evaluated_to(value(last.src.items[2].items[2]).val)
        /\ (cons_of_values(last.src) /\ well_typed(last.src))
           => (evaluated_to(consed(last.src)) /\ global_env = prev_env)
        /\ (cons_of_values(last.src) /\ ~well_typed(last.src))
           => (~last.ok /\ last.err = "TypeError")

\* C15: (filter p l), p and l evaluated, fails with TypeError when p is no
\* Proc or l is no List; otherwise it comes to an end, it fails with
\* TypeError when p answers an element with a value that is neither
\* Lit(True) nor Lit(False), every element before it having been answered
\* with one of the two, and it evaluates to the elements that p answers with
\* Lit(True), in their order in l, when every answer is one of the two; what
\* the names are bound to is left as it was.
C15_FilterKeepsTrueRejectsNonBoolean ==
    LET value(t) ==
            LET built(b) ==
                    IF ~b.ok THEN Fail(b.err)
                    ELSE eval(b.val, NO_BINDING, GlobalEnv, prev_env, MaxDepth)
            IN  built(build_AST(t, prev_env))
        evaluated_to(v) == last.stage \in {"print", "done"} /\ last.val = v
        type_error == ~last.ok /\ last.stage = "eval" /\ last.err = "TypeError"
        filter_of_values(t) ==
            /\ t.k = "form"
            /\ Len(t.items) = 3
            /\ SrcText(t.items[1]) = Tok("FILTER")
            /\ value(t.items[2]).ok
            /\ value(t.items[3]).ok
        contract(p, l) ==
            LET answer(i) ==
                    eval(p, Bindings(<<l.list[i]>>), GlobalEnv, prev_env, MaxDepth)
                boolean(v) == v \in {LitE("TRUE"), LitE("FALSE")}
                accepted(i) == answer(i).ok /\ boolean(answer(i).val)
                rejected(i) ==
                    /\ answer(i).ok
                    /\ ~boolean(answer(i).val)
                    /\ \A j \in 1..(i - 1) : accepted(j)
                kept == {i \in 1..Len(l.list) : answer(i).val = LitE("TRUE")}
                nth(k) == CHOOSE i \in kept :
                              Cardinality({j \in kept : j < i}) = k - 1
            IN  /\ last.err # "StackOverflow"
                /\ (\E i \in 1..Len(l.list) : rejected(i)) => type_error
                /\ (\A i \in 1..Len(l.list) : accepted(i))
                   => evaluated_to(ListE([k \in 1..Cardinality(kept)
                                           |-> l.list[nth(k)]]))
    IN  filter_of_values(last.src)
        => /\ global_env = prev_env
           /\ IF /\ value(last.src.items[2]).val.type = "PROC"
                 /\ value(last.src.items[3]).val.type = "LIST"
              THEN contract(value(last.src.items[2]).val,
                            value(last.src.items[3]).val)
              ELSE type_error

\* C16: when a line has been evaluated and its value printed as the text v,
\* which is not empty, the line v builds, evaluates and prints as v again.
\* read(v) is the expression string v as build_AST takes it apart: a string
\* that neither begins with "(" nor ends with ")" is an atom, one that
\* begins with "'" a quoted list of the lexemes of the rest, any other the
\* form of its lexemes.
C16_PrintedTextReadsBackAsItself ==
    LET v == SubSeq(last.out, 1, Len(last.out) - 1)
        bad == [k |-> "bad", s |-> <<>>, items |-> <<>>]
        RECURSIVE read(_)
        read(str) ==
            LET lexemes(lx, node(_), item(_)) ==
                    IF lx.pc # "returned" THEN bad
                    ELSE IF \E i \in 1..Len(lx.res) : item(lx.res[i]).k = "bad"
                    THEN bad
                    ELSE node([i \in 1..Len(lx.res) |-> item(lx.res[i])])
                quoted(items) == Quote(items)
                bracketed(items) == Form(items)
                const(token) == Atom(token)
            IN  IF str[1] # "(" /\ str[Len(str)] # ")" THEN Atom(str)
                ELSE IF str[1] = "'"
                THEN lexemes(parse_expr(Tail(str)), quoted, const)
                ELSE lexemes(parse_expr(str), bracketed, read)
        again(t) ==
            /\ t.k # "bad"
            /\ RunForm(t, global_env).stage = "done"
            /\ RunForm(t, global_env).out = last.out
    IN  (mode = "repl" /\ last.stage = "done" /\ Len(last.out) > 1)
        => again(read(v))

\* C17: when the line or the file expression last processed is a
\* (define name expr) or a (set! name expr) that succeeded, nothing but the
\* line terminator has been written for it.
C17_DefineAndSetPrintNothing ==
    LET assignment(t) ==
            /\ t.k = "form"
            /\ Len(t.items) = 3
            /\ SrcText(t.items[1]) \in {tok_define, tok_set}
    IN  (assignment(last.src) /\ last.stage = "done")
        => last.out = <<"\n">>

\* C18: when the value to print is a List of n >= 0 elements, the printing
\* does not fail and writes "(", the texts of the elements with one space
\* between two of them, and ")"; for the empty list that is "()".
C18_ListPrintsBracketedElements ==
    LET n == Len(last.val.list)
        text(i) == print_to_console(last.val.list[i]).out
        joined[i \in 0..n] ==
            IF i = 0 THEN <<>>
            ELSE IF i = 1 THEN text(1)
            ELSE joined[i - 1] \o <<" ">> \o text(i)
    IN  (last.stage \in {"print", "done"} /\ last.val.type = "LIST")
        => /\ last.stage = "done"
           /\ last.out = <<"(">> \o joined[n] \o <<")", "\n">>

\* C19: parse_expr called with a string that holds no comment returns its
\* lexemes only when the string begins with "(", that bracket is closed by
\* the last character and by none before it, and no ")" closes more than is
\* open; with any other such string, the empty one included, it fails with
\* a SyntaxError.
C19_OnlyBalancedSourcesAreLexed ==
    LET expr == lexed.expr
        count(c, i) == Cardinality({j \in 1..i : expr[j] = c})
        depth(i) == count("(", i) - count(")", i)
        well_formed ==
            /\ Len(expr) > 0
            /\ expr[1] = "("
            /\ depth(Len(expr)) = 0
            /\ \A i \in 1..(Len(expr) - 1) : depth(i) >= 1
        commented == \E i \in 1..Len(expr) : expr[i] = ";"
    IN  (mode = "parse" /\ ~commented)
        => /\ lexed.pc = "returned" => well_formed
           /\ (lexed.pc \in {"returned", "failed", "crashed"} /\ ~well_formed)
              => (lexed.pc = "failed" /\ lexed.err = "SyntaxError")

\* C20: a call of parse_expr never reads a character that is not the
\* string's, never kills the process, keeps idx within 0..expr.size(), and
\* every round of its loop ends the call or leaves idx greater than it was,
\* so that the call ends after expr.size() rounds at most.
C20_LexerStaysInsideAndAdvances ==
    /\ [](mode = "parse"
          => /\ ~lexed.outside
             /\ lexed.pc # "crashed"
             /\ lexed.idx \in 0..Len(lexed.expr))
    /\ [][(mode = "parse" /\ lexed.pc = "loop")
           => (lexed'.pc # "loop" \/ lexed'.idx > lexed.idx)]_vars

\* C21: a (define name expr) line that succeeds leaves name bound in the
\* global frame; a line that holds a define inside a lambda body, and
\* succeeds, creates no binding for the name defined there; and a call of a
\* procedure bound in the global frame leaves the global frame with the
\* names it had.
C21_DefineBindsWhereEvaluated ==
    LET is_op(t, op) ==
            /\ t.k = "form"
            /\ Len(t.items) = 3
            /\ SrcText(t.items[1]) = op
        RECURSIVE inner_defines(_, _)
        \* the names defined in t inside a lambda body
        inner_defines(t, in_lambda) ==
            IF t.k # "form" THEN {}
            ELSE (IF in_lambda /\ is_op(t, tok_define)
                  THEN {SrcText(t.items[2])} ELSE {})
                 \cup UNION {inner_defines(t.items[i],
                                           in_lambda \/ is_op(t, Tok("LAMBDA")))
                             : i \in 1..Len(t.items)}
        bound(g, name) == is_in_env(GlobalEnv, g, name)
        call_of_bound(t) ==
            /\ t.k = "form"
            /\ Len(t.items) = 2
            /\ t.items[1].k = "atom"
            /\ bound(prev_env, SrcText(t.items[1]))
            /\ find_var(GlobalEnv, prev_env, SrcText(t.items[1])).type
                  \in {"PROC", "PRIM"}
    IN  (mode = "repl" /\ last.stage = "done")
        => /\ is_op(last.src, tok_define)
              => bound(global_env, SrcText(last.src.items[2]))
           /\ \A name \in inner_defines(last.src, FALSE) :
                  bound(global_env, name) <=> bound(prev_env, name)
           /\ call_of_bound(last.src)
              => DOMAIN global_env = DOMAIN prev_env

\* C22: once k is bound by (define k (lambda (n) (lambda (x) (+ x n)))),
\* the procedure made by a call (k c) adds c, the value n has in the frame
\* of that call, to its argument: ((k c) v) evaluates to v + c, and so does
\* (a v) when a is bound to the procedure a call of k returned, whatever
\* else the global frame binds.
C22_ClosureKeepsCreatingFrame ==
    LET int(t) == is_int(SrcText(t)).parsed
        call(t) == t.k = "form" /\ Len(t.items) = 2
        named(t, c) == t.k = "atom" /\ SrcText(t) = <<c>>
        bound_to(g, c) == find_var(GlobalEnv, g, <<c>>)
        adder(x) ==
            /\ x.type = "PRIM"
            /\ x.prim = "LAMBDA"
            /\ x.args[1] = ListE(<<StrE(<<"n">>)>>)
        made_by_adder(x) ==
            /\ x.type = "PROC"
            /\ x.params = ListE(<<StrE(<<"x">>)>>)
            /\ Len(x.env.fr) = 1
            /\ DOMAIN x.env.fr[1] = {<<"n">>}
        evaluated_to(v) == last.stage = "done" /\ last.val = v
    IN  mode = "repl"
        => /\ ( /\ call(last.src)
                /\ call(last.src.items[1])
                /\ named(last.src.items[1].items[1], "k")
                /\ adder(bound_to(prev_env, "k")) )
              => evaluated_to(IntE(int(last.src.items[2])
                                   + int(last.src.items[1].items[2])))
           /\ ( /\ call(last.src)
                /\ named(last.src.items[1], "a")
                /\ made_by_adder(bound_to(prev_env, "a")) )
              => evaluated_to(IntE(int(last.src.items[2])
                                   + bound_to(prev_env, "a").env.fr[1][<<"n">>].ival))

\* C28: a parameter shadows the global binding of its name: the line
\* ((lambda (p) (+ p 1)) v) evaluates to v + 1, the value of the argument
\* plus one, whatever the global frame binds p to.
C28_ParameterShadowsGlobal ==
    LET is_form(t, n) == t.k = "form" /\ Len(t.items) = n
        lam(t) ==
            /\ is_form(t, 3)
            /\ SrcText(t.items[1]) = Tok("LAMBDA")
            /\ is_form(t.items[2], 1)
            /\ is_form(t.items[3], 3)
            /\ SrcText(t.items[3].items[1]) = <<"+">>
            /\ t.items[3].items[2] = t.items[2].items[1]
            /\ SrcText(t.items[3].items[3]) = <<"1">>
    IN  (mode = "repl" /\ is_form(last.src, 2) /\ lam(last.src.items[1]))
        => /\ last.stage = "done"
           /\ last.val = IntE(is_int(SrcText(last.src.items[2])).parsed + 1)

\* C29: with f bound to a procedure of one parameter, the line
\* (define g (lambda (x) (f x))) builds and evaluates without failure (no
\* call of f is evaluated that could fail) and binds g to a lambda; with
\* f bound by (define f (lambda (y) (+ y 1))) and g bound that way, the
\* line (g v) evaluates to v + 1, the value of (f v).
C29_ProcedureCallsProcedure ==
    LET is_form(t, n) == t.k = "form" /\ Len(t.items) = n
        named(t, c) == t.k = "atom" /\ SrcText(t) = <<c>>
        is_lambda(g, c) ==
            /\ is_in_env(GlobalEnv, g, <<c>>)
            /\ find_var(GlobalEnv, g, <<c>>).type = "PRIM"
            /\ find_var(GlobalEnv, g, <<c>>).prim = "LAMBDA"
        defines_g(t) ==
            /\ is_form(t, 3)
            /\ SrcText(t.items[1]) = tok_define
            /\ named(t.items[2], "g")
            /\ is_form(t.items[3], 3)
            /\ SrcText(t.items[3].items[1]) = Tok("LAMBDA")
            /\ is_form(t.items[3].items[3], 2)
            /\ named(t.items[3].items[3].items[1], "f")
        calls_g(t) == is_form(t, 2) /\ named(t.items[1], "g")
    IN  mode = "repl"
        => /\ (defines_g(last.src) /\ is_lambda(prev_env, "f"))
              => /\ last.stage = "done"
                 /\ last.err = ""
                 /\ is_lambda(global_env, "g")
           /\ (calls_g(last.src) /\ is_lambda(prev_env, "f") /\ is_lambda(prev_env, "g"))
              => /\ last.stage = "done"
                 /\ last.val = IntE(is_int(SrcText(last.src.items[2])).parsed + 1)

\* C30: a top-level (define name expr) or (set! name expr) that fails
\* leaves the global frame as it was: every name is bound afterwards
\* exactly when it was bound before, and to the same expression.
C30_FailedFormLeavesGlobalFrame ==
    LET assignment(t) ==
            /\ t.k = "form"
            /\ Len(t.items) >= 1
            /\ SrcText(t.items[1]) \in {tok_define, tok_set}
    IN  (mode = "repl" /\ assignment(last.src) /\ ~last.ok)
        => global_env = prev_env

\* C24: whenever eval returns, what it returns is a value: an Int, Float,
\* Str, List, Lit or Proc, never a Symbol and never a Prim.  Checked of the
\* evaluation of the line just read when the builder made a Prim of it, and
\* in every reachable global frame of the evaluation of every bound name
\* and of every expression stored in the frame.
C24_EvalReturnsValue ==
    LET is_value(r) ==
            r.ok => r.val.type \in {"INT", "FLOAT", "STRING", "LIST", "LIT", "PROC"}
        in_global(x) == eval(x, NO_BINDING, GlobalEnv, global_env, MaxDepth)
        built == build_AST(last.src, prev_env)
    IN  mode = "repl"
        => /\ ( /\ last.stage \in {"print", "done"}
                /\ built.ok
                /\ built.val.type = "PRIM" )
              => is_value(Ok(last.val))
           /\ \A name \in DOMAIN global_env :
                /\ is_value(in_global(SymE(name)))
                /\ global_env[name].type # "NULL" => is_value(in_global(global_env[name]))

\* a name bound to a stored lambda form evaluates to a procedure, and the
\* line just read was built as a Prim and evaluated
C24_Witness_StoredLambdaEvaluated ==
    /\ mode = "repl"
    /\ last.stage = "done"
    /\ build_AST(last.src, prev_env).ok
    /\ build_AST(last.src, prev_env).val.type = "PRIM"
    /\ \E name \in DOMAIN global_env :
         /\ global_env[name].type = "PRIM"
         /\ eval(SymE(name), NO_BINDING, GlobalEnv, global_env, MaxDepth).ok
         /\ eval(SymE(name), NO_BINDING, GlobalEnv, global_env, MaxDepth).val.type = "PROC"

\* C27: applying a procedure binds its parameters in a new frame only.  For
\* every procedure p the global frame binds, every procedure such a p
\* returns, and every deferred call node in the body of such a p, the env
\* in which eval_proc evaluates the body is one new frame, holding the
\* parameters, in front of the frames of the env p carries, which are as
\* they were; and a line that calls a bound procedure leaves the global
\* frame as it was, whether the call returns or fails.
C27_ApplyBindsInFreshFrame ==
    LET in_global(x) == eval(x, NO_BINDING, GlobalEnv, global_env, MaxDepth)
        procs == {in_global(global_env[name]).val :
                    name \in {n \in DOMAIN global_env :
                                /\ global_env[n].type \in {"PRIM", "PROC"}
                                /\ in_global(global_env[n]).ok
                                /\ in_global(global_env[n]).val.type = "PROC"}}
        values == {IntE(1), IntE(2)}
        RECURSIVE nodes(_)
        nodes(x) ==
            {x} \cup
            CASE x.type = "PRIM" -> UNION {nodes(x.args[i]) : i \in DOMAIN x.args}
              [] x.type = "LIST" -> UNION {nodes(x.list[i]) : i \in DOMAIN x.list}
              [] x.type = "PROC" -> nodes(x.params) \cup nodes(x.body)
              [] OTHER -> {}
        deferred(x) == {d \in nodes(x) : d.type = "PROC" /\ d.body.type = "SYMBOL"}
        fresh_child(p, call) ==
            call.ok => /\ Len(call.env.fr) = Len(p.env.fr) + 1
                       /\ Tail(call.env.fr) = p.env.fr
                       /\ call.env.glob = p.env.glob
                       /\ DOMAIN call.env.fr[1] # {}
        params_bound(p, call) ==
            call.ok => DOMAIN call.env.fr[1]
                         = {p.params.list[i].sval : i \in DOMAIN p.params.list}
        apply(p, v) == proc_bind(p, Bindings(<<v>>), GlobalEnv, global_env, MaxDepth)
        returned(p, v) == eval_proc(p, Bindings(<<v>>), GlobalEnv, global_env, MaxDepth)
        is_call(t) == /\ t.k = "form" /\ Len(t.items) = 2 /\ t.items[1].k = "atom"
                      /\ is_in_env(GlobalEnv, prev_env, SrcText(t.items[1]))
                      /\ find_var(GlobalEnv, prev_env, SrcText(t.items[1])).type
                           \in {"PRIM", "PROC"}
    IN  mode = "repl"
        => /\ \A p \in procs : \A v \in values :
                /\ fresh_child(p, apply(p, v))
                /\ params_bound(p, apply(p, v))
                /\ (returned(p, v).ok /\ returned(p, v).val.type = "PROC")
                   => \A w \in values :
                        /\ fresh_child(returned(p, v).val, apply(returned(p, v).val, w))
                        /\ params_bound(returned(p, v).val, apply(returned(p, v).val, w))
                /\ apply(p, v).ok
                   => \A d \in deferred(apply(p, v).body) :
                        fresh_child(d, proc_bind(d, apply(p, v).bindings, apply(p, v).env,
                                                 global_env, MaxDepth))
           /\ is_call(last.src) => global_env = prev_env

\* a is bound to a procedure that carries the frame of the call that made
\* it, fact (whose body holds a deferred call) is bound, and the line just
\* read called a and was evaluated
C27_Witness_ClosureApplied ==
    /\ mode = "repl"
    /\ last.stage = "done"
    /\ last.src.k = "form"
    /\ Len(last.src.items) = 2
    /\ SrcText(last.src.items[1]) = <<"a">>
    /\ <<"a">> \in DOMAIN prev_env
    /\ prev_env[<<"a">>].type = "PROC"
    /\ Len(prev_env[<<"a">>].env.fr) = 1
    /\ tok_fact \in DOMAIN prev_env
    /\ prev_env[tok_fact].type = "PRIM"

C25_HasIffLookupReturnsBinding ==
    mode = "frames"
    => \A name \in {<<"x">>, <<"y">>, <<"z">>} :
         is_in_env(cur_env, global_env, name)
           <=> find_var(cur_env, global_env, name).type # "NULL"

\* C25 amended: the frames of the chain are the call frames, innermost
\* first, and then the global frame.  has(name) is true exactly when some
\* frame holds an entry for name; lookup(name) returns the entry of the
\* innermost frame that holds one, which is the null placeholder while the
\* define of name is under construction, and returns absent when no frame
\* holds one; so a binding returned by lookup implies has, not the reverse.
C25_LookupReturnsInnermostEntry ==
    LET frames == cur_env.fr \o <<global_env>>
        holders(name) == {i \in DOMAIN frames : name \in DOMAIN frames[i]}
        innermost(name) ==
            CHOOSE i \in holders(name) : \A j \in holders(name) : i <= j
    IN  mode = "frames"
        => \A name \in {<<"x">>, <<"y">>, <<"z">>} :
             /\ is_in_env(cur_env, global_env, name) <=> holders(name) # {}
             /\ holders(name) # {}
                => find_var(cur_env, global_env, name) = frames[innermost(name)][name]
             /\ holders(name) = {}
                => find_var(cur_env, global_env, name) = NullExpr
             /\ find_var(cur_env, global_env, name).type # "NULL"
                => is_in_env(cur_env, global_env, name)

\* two call frames hold different expressions for the name just assigned,
\* and the global frame holds the placeholder of another name
C25_Witness_ShadowedAndPlaceholder ==
    /\ mode = "frames"
    /\ last.op = "DEFINE"
    /\ Len(cur_env.fr) = 2
    /\ last.name \in DOMAIN cur_env.fr[1] \cap DOMAIN cur_env.fr[2]
    /\ cur_env.fr[1][last.name] # cur_env.fr[2][last.name]
    /\ \E other \in DOMAIN global_env :
         /\ other # last.name
         /\ global_env[other] = NullExpr
         /\ is_in_env(cur_env, global_env, other)

\* C23: a call mkLit(v) that returns, returns an expression that was not
\* allocated before, whose type is LITERAL and whose u.literal is v, and
\* leaves the expressions allocated before as they were.
C23_mkLitMakesLiteralOfValue ==
    [][ (mode = "ast" /\ last'.op = "mkLit" /\ status' = "running")
        => /\ last'.exp # 0
           /\ last'.exp \notin DOMAIN heap
           /\ last'.exp \in DOMAIN heap'
           /\ heap'[last'.exp].type = "LITERAL"
           /\ heap'[last'.exp].u.literal = last'.literal
           /\ \A a \in DOMAIN heap : heap'[a] = heap[a] ]_vars

\* the case of the test: mkLit of the NUM value 1000 has returned, here as
\* the second expression allocated
C23_Witness_LiteralOfNum1000 ==
    /\ mode = "ast"
    /\ status = "running"
    /\ last.op = "mkLit"
    /\ last.literal = [type |-> "NUM", num |-> 1000]
    /\ last.exp = 2
    /\ heap[2].u.literal.type = "NUM"
    /\ heap[2].u.literal.num = 1000

====
